---- MODULE Spec2Model ----
(***************************************************************************)
(* Element Screen Capture: the content script's capture session            *)
(* (ElementScreenCapture.handleElementSelected -> Scroller.capture ->      *)
(* Scroller.captureWithScrollAndCrop / captureSingleFrame), the inspector  *)
(* messages that interleave with it, and the background service worker     *)
(* (CAPTURE_FRAME, STITCH_AND_DOWNLOAD -> stitchFrames / detectOverlap).   *)
(*                                                                         *)
(* Lengths are CSS pixels.  The scroll step is 0.8 * clientHeight, which   *)
(* is not an integer in general, so every offset the scheduler computes is *)
(* kept in FIFTHS of a pixel (names ending in 5): 0.8 * c is 4 * c fifths. *)
(***************************************************************************)
EXTENDS Integers, Sequences, FiniteSets, TLC

VARIABLES
  page,          \* the selected element and its scroll container (static layout)
  scrollTop,     \* scrollContainer.scrollTop, whole pixels
  inspActive,    \* Inspector.active
  inspector,     \* the Inspector: build, currentElement, overlay elements, listeners
  isCapturing,   \* ElementScreenCapture.isCapturing
  pc,            \* the await at which handleElementSelected/capture is suspended
  loc,           \* locals of captureWithScrollAndCrop
  i,             \* loop index of the frame loop
  retries,       \* the retry counter of the current frame
  frames,        \* the frame list built by the capture
  frameReq,      \* CAPTURE_FRAME requests the background has not yet served
  frameResp,     \* the response to CAPTURE_FRAME on its way to the content script
  stitchReq,     \* the STITCH_AND_DOWNLOAD request on its way to the background
  stitchResp,    \* its response on its way back
  progressShown, \* Scroller.progressIndicator # null
  scrollbarHidden, \* data-esc-hide-scrollbar is set on the container
  style,         \* the style attribute of the scroll container, its declarations
  isIsolated,    \* Isolator.isIsolated
  isolatedElements,  \* Isolator.isolatedElements
  dom,           \* the fixed and sticky elements that lie over the target
  popup,         \* runtime messages sent by the content script in this session
  tabMsgs,       \* messages the background sent to the tab in this session
  downloads,     \* composites handed to chrome.downloads.download
  outcome,       \* how the latest session ended
  hist           \* observation record of the running session (not program state)

vars == <<page, scrollTop, inspActive, inspector, isCapturing, pc, loc, i, retries, frames,
          frameReq, frameResp, stitchReq, stitchResp, progressShown,
          scrollbarHidden, style, isIsolated, isolatedElements, dom, popup, tabMsgs, downloads, outcome, hist>>

----------------------------------------------------------------------------
(* Bounds of the model                                                      *)

MaxClient == 5        \* container clientHeight ranges over MaxClient-1 .. MaxClient
MaxExtra == 9         \* scrollHeight - clientHeight ranges over 0 .. MaxExtra
MaxSessions == 2      \* capture sessions started on the page
MaxFrames == 3        \* frames of a frame list handed to stitchFrames directly
MaxRows == 2          \* height of such a frame
ContainerTop == 1     \* viewport row of the container's top edge
PageWidth == 1        \* width of the container and of the viewport

----------------------------------------------------------------------------
(* Arithmetic helpers                                                       *)

Min(a, b) == IF a <= b THEN a ELSE b
Max(a, b) == IF a >= b THEN a ELSE b

\* Math.ceil(n / d) for n >= 0, d > 0
CeilDiv(n, d) == (n + d - 1) \div d

\* Math.round(n / d) for n >= 0, d > 0: halves round up
RoundDiv(n, d) == (2 * n + d) \div (2 * d)

----------------------------------------------------------------------------
(* The page: one scroll container and the element the user selected.  The   *)
(* element is the container itself (self) or a descendant of it that starts *)
(* offsetTop rows into the container's content and is `height` rows tall.   *)
(* positioned says whether the container is on the descendant's             *)
(* offsetParent chain.  The page itself does not scroll.                    *)

ClientHeights == (MaxClient - 1) .. MaxClient

\* the selected element is the scroll container, at device pixel ratio 1
SelfPages ==
  { [clientHeight |-> c, scrollHeight |-> c + e, self |-> TRUE, offsetTop |-> 0,
     height |-> c + e, positioned |-> TRUE, dpr |-> 1,
     viewportHeight |-> ContainerTop + c + 1] :
      c \in ClientHeights, e \in 0 .. MaxExtra }

\* the same on a display with device pixel ratio 2
HiDpiPages ==
  { [clientHeight |-> MaxClient, scrollHeight |-> MaxClient + e, self |-> TRUE,
     offsetTop |-> 0, height |-> MaxClient + e, positioned |-> TRUE, dpr |-> 2,
     viewportHeight |-> ContainerTop + MaxClient + 1] :
      e \in {0, MaxExtra - 2} }

\* the same at device pixel ratio 3, with three frames to take
TripleDpiPages ==
  { [clientHeight |-> MaxClient, scrollHeight |-> 2 * MaxClient, self |-> TRUE,
     offsetTop |-> 0, height |-> 2 * MaxClient, positioned |-> TRUE, dpr |-> 3,
     viewportHeight |-> ContainerTop + MaxClient + 1] }

\* The selected element is a descendant of the scroll container, shorter or
\* taller than the container's visible height, at the top or at the bottom of
\* its content.  Scroller.isScrollable makes the parent a scroll container
\* only when scrollHeight > clientHeight + 1.
ChildPages ==
  { [clientHeight |-> MaxClient, scrollHeight |-> MaxClient + e, self |-> FALSE,
     offsetTop |-> t, height |-> h, positioned |-> b, dpr |-> 1,
     viewportHeight |-> ContainerTop + MaxClient + 1] :
      e \in {2, MaxExtra}, h \in {2, MaxClient + 3},
      t \in {0, MaxClient + MaxExtra - (MaxClient + 3), MaxClient + MaxExtra - 2},
      b \in BOOLEAN }

\* The same with a window that ends `cut` rows above the container's bottom
\* edge: the selected element is 2 rows tall, at the top or at the bottom of
\* the container's content.
ClippedPages ==
  { [clientHeight |-> MaxClient, scrollHeight |-> MaxClient + MaxExtra,
     self |-> FALSE, offsetTop |-> t, height |-> 2, positioned |-> TRUE,
     dpr |-> 1, viewportHeight |-> ContainerTop + MaxClient - cut] :
      t \in {0, MaxClient + MaxExtra - 2}, cut \in {2, 3} }

\* The documented scheduler scenario: scrollExtent = 1000, clientExtent = 500.
ScenarioPage ==
  [clientHeight |-> 500, scrollHeight |-> 1000, self |-> TRUE, offsetTop |-> 0,
   height |-> 1000, positioned |-> TRUE, dpr |-> 1, viewportHeight |-> ContainerTop + 500 + 1]

Pages ==
  SelfPages \cup HiDpiPages \cup TripleDpiPages \cup {ScenarioPage}
    \cup ClippedPages
    \cup { p \in ChildPages : p.offsetTop + p.height <= p.scrollHeight }

ViewportW == PageWidth

\* The fixed or sticky elements of the page that lie over the selected element
\* and are neither its ancestors nor its descendants: for each its inline
\* style.visibility and style.pointerEvents ("" when not set inline) and
\* whether it carries the attribute data-esc-isolated.
InlineStyle(visibility, pointerEvents) ==
  [visibility |-> visibility, pointerEvents |-> pointerEvents, marked |-> FALSE]

InlineStyles ==
  { InlineStyle(v, pe) : v \in {"", "visible", "hidden"}, pe \in {"", "auto"} }

\* Pages with such elements are the smallest ones in which the selected
\* element is the container: one that does not scroll, one of two frames.
HasOverlays(p) ==
  p.self /\ p.dpr = 1 /\ p.clientHeight = MaxClient - 1
    /\ p.scrollHeight - p.clientHeight <= 1

Doms(p) ==
  IF HasOverlays(p)
  THEN {<< >>} \cup { << s >> : s \in InlineStyles }
         \cup { << InlineStyle("visible", "auto"), InlineStyle("", "") >> }
  ELSE {<< >>}
\* The style attribute of the scroll container: its declarations in order,
\* each a property with its value; << >> is an absent or empty attribute
\* (getAttribute('style') || '' does not tell the two apart).
Declaration(property, value) == [property |-> property, value |-> value]

\* the style attributes a container starts with: on a scrolling container
\* without overlays also one that sets scrollbar-width and one that does not
ContainerStyles(p, d) ==
  IF p.self /\ p.dpr = 1 /\ p.clientHeight = MaxClient - 1
       /\ p.scrollHeight - p.clientHeight = 1 /\ d = << >>
  THEN {<< >>, << Declaration("scrollbar-width", "thin") >>,
        << Declaration("overflow", "auto") >>}
  ELSE {<< >>}

\* element.style[property] = value: an existing declaration gets the value,
\* a new one is added at the end
SetStyleProperty(st, property, value) ==
  IF \E k \in 1 .. Len(st) : st[k].property = property
  THEN [k \in 1 .. Len(st) |->
          IF st[k].property = property THEN Declaration(property, value)
          ELSE st[k]]
  ELSE Append(st, Declaration(property, value))

\* hideScrollbars: element.style.scrollbarWidth = 'none' (msOverflowStyle is
\* no property of the host's style declarations and leaves the attribute alone)
HideScrollbarsStyle(st) == SetStyleProperty(st, "scrollbar-width", "none")

\* the style attribute left as the capture made it
RestoreScrollbarsSkipped(st, originalStyle) == st

\* scrollbarState.restore(): element.setAttribute('style', originalStyle)
RestoreScrollbars(st, originalStyle) == originalStyle

ViewportH(p) == p.viewportHeight

MaxScrollTop(p) == Max(0, p.scrollHeight - p.clientHeight)

\* element.scrollTop = v: the host clamps the value to the scrollable range and
\* snaps it to a whole pixel.
SetScrollTop(p, v5) == Min(Max(0, RoundDiv(v5, 5)), MaxScrollTop(p))

\* cropTarget.getBoundingClientRect() with the container scrolled to st
TargetRect(p, st) ==
  IF p.self
  THEN [left |-> 0, top |-> ContainerTop, right |-> PageWidth,
        bottom |-> ContainerTop + p.clientHeight]
  ELSE [left |-> 0, top |-> ContainerTop + p.offsetTop - st, right |-> PageWidth,
        bottom |-> ContainerTop + p.offsetTop - st + p.height]

----------------------------------------------------------------------------
(* Scroller: the scheduling arithmetic                                      *)

\* effectiveHeight with the overlap ratio dropped
EffectiveHeightNoOverlap5(clientHeight) == 5 * clientHeight

\* overlapRatio = 0.2: effectiveHeight = clientHeight * (1 - 0.2), in fifths
EffectiveHeight5(clientHeight) == 4 * clientHeight

\* Scroller.calculateFrames(scrollContainer)
CalculateFrames(p, st) ==
  LET scrollableHeight == p.scrollHeight - p.clientHeight IN
  IF scrollableHeight <= 0
  THEN [totalFrames |-> 1, frameHeight5 |-> 5 * p.clientHeight,
        scrollableHeight |-> 0, initialScrollTop |-> st]
  ELSE [totalFrames |->
          CeilDiv(5 * scrollableHeight, EffectiveHeight5(p.clientHeight)) + 1,
        frameHeight5 |-> EffectiveHeight5(p.clientHeight),
        scrollableHeight |-> scrollableHeight, initialScrollTop |-> st]

\* Scroller.getElementOffsetInContainer(cropTarget, scrollContainer): the sum of
\* offsetTop along the offsetParent chain, stopped at the container when the
\* chain reaches it and at the end of the chain otherwise.
GetElementOffsetInContainer(p) ==
  IF p.self THEN 0
  ELSE IF p.positioned THEN p.offsetTop
  ELSE ContainerTop + p.offsetTop

\* cropTarget.scrollHeight || cropTarget.offsetHeight
TargetHeight(p) == IF p.self THEN p.scrollHeight ELSE p.height

\* scrollableForTarget = Math.max(0, targetHeight - containerVisibleHeight)
ScrollableForTarget(p) == Max(0, TargetHeight(p) - p.clientHeight)

\* totalFrames without the closing frame
TotalFramesNoExtra(p) ==
  IF ScrollableForTarget(p) > 0
  THEN CeilDiv(5 * ScrollableForTarget(p), EffectiveHeight5(p.clientHeight))
  ELSE 1

\* totalFrames of captureWithScrollAndCrop
TotalFrames(p) ==
  IF ScrollableForTarget(p) > 0
  THEN CeilDiv(5 * ScrollableForTarget(p), EffectiveHeight5(p.clientHeight)) + 1
  ELSE 1

\* relativeScrollTop of frame k, in fifths
RelativeScrollTop5(p, k) ==
  IF k = 0 THEN 0
  ELSE Min(k * EffectiveHeight5(p.clientHeight), 5 * ScrollableForTarget(p))

\* absoluteScrollTop of frame k, in fifths
AbsoluteScrollTop5(p, k) ==
  5 * GetElementOffsetInContainer(p) + RelativeScrollTop5(p, k)

\* Scroller.calculateCropRegion: the target's rectangle clipped to the viewport
\* and scaled by the device pixel ratio.
CalculateCropRegion(rect, viewportWidth, viewportHeight, dpr) ==
  LET visibleLeft == Max(0, rect.left)
      visibleTop == Max(0, rect.top)
      visibleRight == Min(viewportWidth, rect.right)
      visibleBottom == Min(viewportHeight, rect.bottom)
      visibleWidth == visibleRight - visibleLeft
      visibleHeight == visibleBottom - visibleTop
  IN [x |-> visibleLeft * dpr, y |-> visibleTop * dpr,
      width |-> visibleWidth * dpr, height |-> visibleHeight * dpr]

----------------------------------------------------------------------------
(* Rasters.  A bitmap is [width, height, data] with data the row-major RGBA  *)
(* bytes, as in ImageData: byte c of pixel (row, col) is                     *)
(* data[(row * width + col) * 4 + c], here at sequence position + 1.         *)

Undefined == -1   \* what a read outside a typed array yields

\* imageData.data[idx]: the array holds width * height * 4 bytes
ReadByte(img, idx) ==
  IF idx >= 0 /\ idx < img.width * img.height * 4 THEN img.data[idx + 1]
  ELSE Undefined

\* The colour of content row y of the container: rows differ from one another
\* in some channel by at least 16, and from the page background in blue.
ContentByte(y, c) ==
  CASE c = 0 -> (y % 16) * 16
    [] c = 1 -> ((y \div 16) % 16) * 16
    [] c = 2 -> ((y \div 256) % 8) * 16
    [] OTHER -> 255

BackgroundByte(c) == 255

\* chrome.tabs.captureVisibleTab: the viewport at device resolution, with the
\* container scrolled to shot.scrollTop.
Snapshot(p, shot) ==
  LET w == ViewportW * p.dpr
      h == ViewportH(p) * p.dpr
  IN [width |-> w, height |-> h,
      data |-> [k \in 1 .. w * h * 4 |->
                 LET c == (k - 1) % 4
                     v == (((k - 1) \div 4) \div w) \div p.dpr
                 IN IF v >= ContainerTop /\ v < ContainerTop + p.clientHeight
                    THEN ContentByte(shot.scrollTop + v - ContainerTop, c)
                    ELSE BackgroundByte(c)]]

\* The picture with one row per entry of `rows`, each the colour of that
\* content row, `width` pixels wide.
RowsImage(width, rows) ==
  [width |-> width, height |-> Len(rows),
   data |-> [k \in 1 .. width * Len(rows) * 4 |->
               ContentByte(rows[((k - 1) \div 4) \div width + 1], (k - 1) % 4)]]

\* dataUrlToImageBitmap: a data URL is held as what it encodes, either the
\* page it was taken of and the state of that page it shows (kind "tab"), or
\* the rows of a picture (kind "rows").
DataUrlToImageBitmap(dataUrl) ==
  IF dataUrl.kind = "tab" THEN Snapshot(dataUrl.page, dataUrl.shot)
  ELSE RowsImage(dataUrl.width, dataUrl.rows)

\* new OffscreenCanvas(w, h) followed by drawImage(img, sx, sy, w, h, 0, 0, w, h):
\* source pixels outside the image stay transparent black.
CropImage(img, sx, sy, w, h) ==
  [width |-> w, height |-> h,
   data |-> [k \in 1 .. w * h * 4 |->
              LET c == (k - 1) % 4
                  col == ((k - 1) \div 4) % w
                  row == ((k - 1) \div 4) \div w
              IN IF sx + col < img.width /\ sy + row < img.height
                    /\ sx + col >= 0 /\ sy + row >= 0
                 THEN img.data[((sy + row) * img.width + sx + col) * 4 + c + 1]
                 ELSE 0]]

\* ctx.getImageData(0, sy, w, h) of a canvas
GetImageData(canvas, sy, w, h) == CropImage(canvas, 0, sy, w, h)

----------------------------------------------------------------------------
(* background.js: detectOverlap                                             *)

MatchTolerance == 5        \* dr <= 5 && dg <= 5 && db <= 5
MatchPercent == 95         \* matchCount / totalSamples > 0.95
MaxSamples == 100          \* Math.min(width, 100)

Abs(x) == IF x < 0 THEN -x ELSE x

\* a comparison that accepts any two bytes read inside the arrays
ChannelMatchesAny(a, b) == a # Undefined /\ b # Undefined

\* Math.abs(a - b) <= 5, false when either read is undefined (NaN)
ChannelMatches(a, b) ==
  a # Undefined /\ b # Undefined /\ Abs(a - b) <= MatchTolerance

\* sampleCount = Math.min(width, 100)
SampleCount(width) == Min(width, MaxSamples)

\* sampleStep = Math.floor(width / sampleCount)
SampleStep(width) ==
  IF SampleCount(width) = 0 THEN 0 ELSE width \div SampleCount(width)

\* x = sample * sampleStep
SampleColumn(width, sample) == sample * SampleStep(width)

\* the row of the previous window counted from the row below its last
PrevRowBelowWindow(prevData, overlap, row) == prevData.height - overlap + row + 1

\* prevRow = prevData.height - overlap + row
PrevRow(prevData, overlap, row) == prevData.height - overlap + row

\* the number of sampled positions of candidate `overlap` that match
MatchCount(prevData, currData, overlap) ==
  LET width == prevData.width
      sampleCount == SampleCount(width)
  IN Cardinality(
       { rs \in (0 .. overlap - 1) \X (0 .. sampleCount - 1) :
           LET prevRow == PrevRow(prevData, overlap, rs[1])
               currRow == rs[1]
               x == SampleColumn(width, rs[2])
               prevIdx == (prevRow * width + x) * 4
               currIdx == (currRow * width + x) * 4
           IN /\ ChannelMatches(ReadByte(prevData, prevIdx),
                                ReadByte(currData, currIdx))
              /\ ChannelMatches(ReadByte(prevData, prevIdx + 1),
                                ReadByte(currData, currIdx + 1))
              /\ ChannelMatches(ReadByte(prevData, prevIdx + 2),
                                ReadByte(currData, currIdx + 2)) })

\* matchCount / totalSamples > 0.95 (0 / 0 is NaN, which is not > 0.95)
CandidateAccepted(prevData, currData, overlap) ==
  LET totalSamples == overlap * Min(prevData.width, MaxSamples)
  IN MatchCount(prevData, currData, overlap) * 100 > MatchPercent * totalSamples

\* for (overlap = maxOverlap; overlap >= 1; overlap--) ... return overlap; return 0
RECURSIVE DetectFrom(_, _, _)
DetectFrom(prevData, currData, overlap) ==
  IF overlap < 1 THEN 0
  ELSE IF CandidateAccepted(prevData, currData, overlap) THEN overlap
  ELSE DetectFrom(prevData, currData, overlap - 1)

\* the search started one candidate below maxOverlap
DetectOverlapBelowMax(prevData, currData, maxOverlap) ==
  DetectFrom(prevData, currData, maxOverlap - 1)

DetectOverlap(prevData, currData, maxOverlap) ==
  DetectFrom(prevData, currData, maxOverlap)

----------------------------------------------------------------------------
(* background.js: stitchFrames.  Crop rectangles here have whole-number      *)
(* coordinates (whole CSS pixels times a whole device pixel ratio), so the   *)
(* Math.round calls on them change nothing.                                  *)

\* croppedFrames: every snapshot of the frame list fs cut to its crop rectangle
CroppedFrames(fs) ==
  [k \in 1 .. Len(fs) |->
     CropImage(DataUrlToImageBitmap(fs[k].dataUrl),
               fs[k].cropRegion.x, fs[k].cropRegion.y,
               fs[k].cropRegion.width, fs[k].cropRegion.height)]

\* the search window taken as maxOverlapHeight whatever the frames' heights
CheckHeightUnclamped(prev, curr, maxOverlapHeight) == maxOverlapHeight

\* checkHeight = Math.min(maxOverlapHeight, prev.height, curr.height)
CheckHeight(prev, curr, maxOverlapHeight) ==
  Min(maxOverlapHeight, Min(prev.height, curr.height))

\* the overlap of frame k (k >= 2) with the frame before it
OverlapOf(cropped, options, k) ==
  LET prev == cropped[k - 1]
      curr == cropped[k]
      checkHeight == CheckHeight(prev, curr, options.maxOverlapHeight)
  IN DetectOverlap(
       GetImageData(prev, prev.height - checkHeight, prev.width, checkHeight),
       GetImageData(curr, 0, curr.width, checkHeight),
       checkHeight)

\* overlaps.push(...) for frames k .. n; acc holds the overlaps pushed so far
\* and the number of calls of detectOverlap made for them
RECURSIVE PushOverlaps(_, _, _, _, _)
PushOverlaps(acc, cropped, n, options, k) ==
  IF k > n THEN acc
  ELSE PushOverlaps(
         IF options.detectDuplicates /\ n > 1
         THEN [overlaps |-> Append(acc.overlaps, OverlapOf(cropped, options, k)),
               calls |-> acc.calls + 1]
         ELSE [overlaps |-> Append(acc.overlaps, 0), calls |-> acc.calls],
         cropped, n, options, k + 1)

\* overlaps computed by detectOverlap whatever options.detectDuplicates says
OverlapsAlwaysDetected(cropped, n, options) ==
  PushOverlaps([overlaps |-> << 0 >>, calls |-> 0], cropped, n,
               [options EXCEPT !.detectDuplicates = TRUE], 2)

\* overlaps = [0], then one entry per later frame
Overlaps(cropped, n, options) ==
  PushOverlaps([overlaps |-> << 0 >>, calls |-> 0], cropped, n, options, 2)

\* the sum of the heights of the frames 1 .. k, overlaps not subtracted
RECURSIVE TotalHeightNoOverlap(_, _, _)
TotalHeightNoOverlap(cropped, overlaps, k) ==
  IF k = 0 THEN 0
  ELSE TotalHeightNoOverlap(cropped, overlaps, k - 1) + cropped[k].height

\* totalHeight += croppedFrames[i].height - (i > 0 ? overlaps[i] : 0)
RECURSIVE TotalHeight(_, _, _)
TotalHeight(cropped, overlaps, k) ==
  IF k = 0 THEN 0
  ELSE TotalHeight(cropped, overlaps, k - 1)
         + cropped[k].height - (IF k > 1 THEN overlaps[k] ELSE 0)

\* the drawing loop with every frame drawn from its row 0 on
RECURSIVE DrawFramesFromTop(_, _, _, _, _, _, _)
DrawFramesFromTop(data, size, outputWidth, cropped, overlaps, k, currentY) ==
  IF k > Len(overlaps) THEN [data |-> data, currentY |-> currentY]
  ELSE
    LET frame == cropped[k]
        sourceY == IF k = 1 THEN 0 ELSE overlaps[k]
        sourceHeight == frame.height - sourceY
        drawn ==
          [q \in 1 .. size |->
             LET c == (q - 1) % 4
                 col == ((q - 1) \div 4) % outputWidth
                 row == ((q - 1) \div 4) \div outputWidth
             IN IF row >= currentY /\ row < currentY + sourceHeight
                   /\ col < frame.width
                THEN frame.data[((row - currentY) * frame.width + col) * 4 + c + 1]
                ELSE data[q]]
    IN DrawFramesFromTop(drawn, size, outputWidth, cropped, overlaps, k + 1,
                         currentY + sourceHeight)

\* The drawing loop from frame k on: frame k is drawn from its row sourceY on,
\* at row currentY of the final canvas, whose array holds `size` bytes; returns
\* the canvas bytes and the write cursor after the last frame.
RECURSIVE DrawFrames(_, _, _, _, _, _, _)
DrawFrames(data, size, outputWidth, cropped, overlaps, k, currentY) ==
  IF k > Len(overlaps) THEN [data |-> data, currentY |-> currentY]
  ELSE
    LET frame == cropped[k]
        sourceY == IF k = 1 THEN 0 ELSE overlaps[k]
        sourceHeight == frame.height - sourceY
        drawn ==
          [q \in 1 .. size |->
             LET c == (q - 1) % 4
                 col == ((q - 1) \div 4) % outputWidth
                 row == ((q - 1) \div 4) \div outputWidth
             IN IF row >= currentY /\ row < currentY + sourceHeight
                   /\ col < frame.width
                THEN frame.data[((row - currentY + sourceY) * frame.width + col) * 4
                                + c + 1]
                ELSE data[q]]
    IN DrawFrames(drawn, size, outputWidth, cropped, overlaps, k + 1,
                  currentY + sourceHeight)

\* The host calls of stitchFrames that throw: a canvas of negative size,
\* getImageData of an empty rectangle, and drawImage from a canvas without
\* pixels.
StitchThrows(fs, options) ==
  LET cropped == CroppedFrames(fs) IN
  \/ Len(fs) = 0
  \/ \E k \in 1 .. Len(fs) :
       fs[k].cropRegion.width < 0 \/ fs[k].cropRegion.height < 0
  \/ \E k \in 1 .. Len(fs) :
       fs[k].cropRegion.width = 0 \/ fs[k].cropRegion.height = 0
  \/ /\ options.detectDuplicates
     /\ \E k \in 2 .. Len(fs) :
          \/ CheckHeight(cropped[k - 1], cropped[k], options.maxOverlapHeight) <= 0
          \/ cropped[k - 1].width = 0
          \/ cropped[k].width = 0

\* stitchFrames(fs, options): the final canvas, or the failure.
\* convertToBlob rejects for a canvas without pixels.
StitchFrames(fs, options) ==
  IF StitchThrows(fs, options) THEN [ok |-> FALSE]
  ELSE
    LET cropped == CroppedFrames(fs)
        pushed == Overlaps(cropped, Len(fs), options)
        overlaps == pushed.overlaps
        outputWidth == fs[1].cropRegion.width
        totalHeight == TotalHeight(cropped, overlaps, Len(fs))
        size == outputWidth * totalHeight * 4
        blank == [q \in 1 .. size |-> 0]
        final == DrawFrames(blank, size, outputWidth, cropped, overlaps, 1, 0)
    IN IF outputWidth = 0 \/ totalHeight = 0 THEN [ok |-> FALSE]
       ELSE [ok |-> TRUE, width |-> outputWidth, height |-> totalHeight,
             data |-> final.data, overlaps |-> overlaps,
             currentY |-> final.currentY, detectCalls |-> pushed.calls]

----------------------------------------------------------------------------
(* Isolator                                                                 *)

\* findElementsToIsolate: overlapsWithTarget skips an element whose computed
\* visibility is hidden
FindElementsToIsolate(d) ==
  { k \in 1 .. Len(d) : d[k].visibility # "hidden" }

\* the entries isolate() pushes for the elements k .. Len(d) of d
RECURSIVE IsolatedEntries(_, _)
IsolatedEntries(d, k) ==
  IF k > Len(d) THEN << >>
  ELSE IF k \in FindElementsToIsolate(d)
       THEN << [element |-> k, originalVisibility |-> d[k].visibility,
                originalPointerEvents |-> d[k].pointerEvents] >>
              \o IsolatedEntries(d, k + 1)
       ELSE IsolatedEntries(d, k + 1)

\* the elements after isolate(): hidden, without pointer events, marked
IsolateDom(d) ==
  [k \in 1 .. Len(d) |->
     IF k \in FindElementsToIsolate(d)
     THEN [visibility |-> "hidden", pointerEvents |-> "none", marked |-> TRUE]
     ELSE d[k]]

\* the elements after restore() has walked the entries k .. Len(entries)
RECURSIVE RestoreDom(_, _, _)
RestoreDom(d, entries, k) ==
  IF k > Len(entries) THEN d
  ELSE RestoreDom([d EXCEPT ![entries[k].element] =
                     [visibility |-> entries[k].originalVisibility,
                      pointerEvents |-> entries[k].originalPointerEvents,
                      marked |-> FALSE]],
                  entries, k + 1)

\* a forceRestore that leaves the elements as they are
ForceRestoreSkipped(d) == d

\* the elements after forceRestore(): every element that carries
\* data-esc-isolated="true" gets visibility '' and pointerEvents '' and loses
\* the attribute
ForceRestoreDom(d) ==
  [k \in 1 .. Len(d) |->
     IF d[k].marked
     THEN [visibility |-> "", pointerEvents |-> "", marked |-> FALSE]
     ELSE d[k]]

----------------------------------------------------------------------------
(* Messages                                                                 *)

\* The Inspector.  The repository has it twice: the module
\* content/inspector.js (build "module") and the copy inside the content
\* script content/content.js (build "content"), which is the one the manifest
\* loads.  Null is no element.
Null == 0

NewInspector(build) ==
  [build |-> build, currentElement |-> Null, overlay |-> FALSE,
   listeners |-> FALSE]

\* Inspector.start after its guard: createOverlayElements,
\* attachEventListeners, showTooltip
InspectorStarted(insp) == [insp EXCEPT !.overlay = TRUE, !.listeners = TRUE]

\* Inspector.stop after its guard: removeOverlayElements,
\* detachEventListeners, currentElement = null
InspectorStopped(insp) ==
  [insp EXCEPT !.overlay = FALSE, !.listeners = FALSE, !.currentElement = Null]

\* the argument handleClick passes to onSelect: the module reads
\* this.currentElement after stop(), the content script saved it before
SelectedArgument(insp) ==
  IF insp.build = "module" THEN InspectorStopped(insp).currentElement
  ELSE insp.currentElement

None == [kind |-> "none"]

\* the locals of captureWithScrollAndCrop outside a call of it
NoLocals ==
  [targetOffsetTop |-> 0, totalFrames |-> 0, initialScrollTop |-> 0,
   originalStyle |-> << >>]

Msg(type) == [type |-> type, current |-> 0, total |-> 0]
ProgressMsg(current, total) ==
  [type |-> "CAPTURE_PROGRESS", current |-> current, total |-> total]

\* The observation record of a session that starts with the container at st.
NewHist(sessions, st) ==
  [sessions |-> sessions,      \* sessions started so far on the page
   active |-> 0,               \* sessions started and not yet ended
   initialScrollTop |-> st,    \* the container's offset when the session began
   scrollCalls |-> << >>,      \* offsets (fifths) passed to scrollTo, in order
   loopCalls |-> << >>,        \* those passed by the frame loop itself
   attempts |-> 0,             \* CAPTURE_FRAME requests sent for the frame being
                               \* captured (0 between frames)
   limited |-> 0,              \* rate-limited answers received for that frame
   cancelled |-> FALSE,        \* CANCEL_INSPECTOR arrived between two frames
   ignored |-> FALSE,          \* a selection arrived while the session ran
   failedAt |-> -1,            \* frame index at which the session failed
   failKind |-> "none",        \* the answer that made it fail
   failAttempts |-> 0,         \* requests sent for that frame
   failLimited |-> 0,          \* rate-limited answers received for that frame
   stitched |-> None,          \* what stitchFrames computed for the session
   clicks |-> 0,               \* click events delivered to the page
   selected |-> << >>,         \* the arguments of the calls of onSelect
   styleBefore |-> << >>,      \* the container's style attribute at the session's start
   domBefore |-> << >>,        \* the elements' inline styles just before isolate()
   hidden |-> {}]              \* the elements isolate() hid

----------------------------------------------------------------------------
(* Initial states                                                           *)

Init ==
  /\ page \in Pages
  /\ scrollTop \in {0, MaxScrollTop(page)}
  /\ inspActive = FALSE
  /\ inspector = NewInspector("content")
  /\ isCapturing = FALSE
  /\ pc = "idle"
  /\ loc = NoLocals
  /\ i = 0
  /\ retries = 0
  /\ frames = << >>
  /\ frameReq = 0
  /\ frameResp = None
  /\ stitchReq = None
  /\ stitchResp = None
  /\ progressShown = FALSE
  /\ scrollbarHidden = FALSE
  /\ isIsolated = FALSE
  /\ isolatedElements = << >>
  /\ dom \in Doms(page)
  /\ style \in ContainerStyles(page, dom)
  /\ popup = << >>
  /\ tabMsgs = << >>
  /\ downloads = << >>
  /\ outcome = "none"
  /\ hist = NewHist(0, scrollTop)

----------------------------------------------------------------------------
(* Inspector and the content script's message listener                      *)

\* onMessage START_INSPECTOR -> startInspector -> Inspector.start
StartInspector ==
  /\ inspActive' = TRUE
  /\ inspector' = (IF inspActive THEN inspector ELSE InspectorStarted(inspector))
  /\ UNCHANGED <<page, scrollTop, isCapturing, pc, loc, i, retries, frames,
                 frameReq, frameResp, stitchReq, stitchResp, progressShown,
                 scrollbarHidden, style, isIsolated, isolatedElements, dom, popup, tabMsgs, downloads, outcome,
                 hist>>

\* The frame loop is between two frames: frame i - 1 is pushed and the
\* snapshot of frame i is not yet requested.
BetweenFrames == pc \in {"scrolled", "settle"} /\ i >= 1

\* onMessage CANCEL_INSPECTOR -> cancelInspector -> Inspector.stop
CancelInspector ==
  /\ inspActive' = FALSE
  /\ inspector' = (IF inspActive THEN InspectorStopped(inspector) ELSE inspector)
  /\ hist' = IF isCapturing /\ BetweenFrames
             THEN [hist EXCEPT !.cancelled = TRUE]
             ELSE hist
  /\ UNCHANGED <<page, scrollTop, isCapturing, pc, loc, i, retries, frames,
                 frameReq, frameResp, stitchReq, stitchResp, progressShown,
                 scrollbarHidden, style, isIsolated, isolatedElements, dom, popup, tabMsgs, downloads, outcome>>

\* handleElementSelected without its isCapturing guard
SelectionNeverIgnored == FALSE

\* handleElementSelected: if (this.isCapturing) return;
SelectionIgnored == isCapturing

\* Inspector.handleClick on the highlighted element while no capture runs:
\* stop(), then onSelect -> handleElementSelected -> Scroller.capture up to its
\* first await (after isolator.isolate).
HandleElementSelected ==
  /\ inspActive
  /\ ~SelectionIgnored
  /\ hist.sessions < MaxSessions
  /\ inspActive' = FALSE
  /\ inspector' = InspectorStopped(inspector)
  /\ isCapturing' = TRUE
  /\ popup' = << Msg("ELEMENT_SELECTED") >>
  /\ tabMsgs' = << >>
  /\ isIsolated' = TRUE
  /\ isolatedElements' = (IF isIsolated THEN isolatedElements
                          ELSE isolatedElements \o IsolatedEntries(dom, 1))
  /\ dom' = (IF isIsolated THEN dom ELSE IsolateDom(dom))
  /\ frames' = << >>
  /\ pc' = "isolated"
  /\ outcome' = "none"
  /\ hist' = [NewHist(hist.sessions + 1, scrollTop) EXCEPT
                !.active = hist.active + 1,
                !.domBefore = dom, !.styleBefore = style,
                !.hidden = IF isIsolated THEN {} ELSE FindElementsToIsolate(dom)]
  /\ UNCHANGED <<page, scrollTop, loc, i, retries, frameReq, frameResp, stitchReq,
                 stitchResp, progressShown, scrollbarHidden, style, downloads>>

\* Inspector.handleClick while a capture runs: the inspector stops and
\* handleElementSelected returns at once.
HandleClickWhileCapturing ==
  /\ inspActive
  /\ SelectionIgnored
  /\ inspActive' = FALSE
  /\ inspector' = InspectorStopped(inspector)
  /\ hist' = [hist EXCEPT !.ignored = TRUE]
  /\ UNCHANGED <<page, scrollTop, isCapturing, pc, loc, i, retries, frames,
                 frameReq, frameResp, stitchReq, stitchResp, progressShown,
                 scrollbarHidden, style, isIsolated, isolatedElements, dom, popup, tabMsgs, downloads, outcome>>

----------------------------------------------------------------------------
(* Scroller.capture and Scroller.captureWithScrollAndCrop                    *)

MaxRetries == 3   \* let retries = 3

\* the observation of scrollTo(scrollContainer, v5)
NoteScroll(h, v5, inLoop) ==
  [h EXCEPT !.scrollCalls = Append(@, v5),
            !.loopCalls = IF inLoop THEN Append(@, v5) ELSE @]

\* element.clientHeight of the selected element
ElementClientHeight(p) == IF p.self THEN p.clientHeight ELSE p.height

\* options of STITCH_AND_DOWNLOAD:
\* maxOverlapHeight = Math.round(element.clientHeight * 0.3)
StitchOptions(p) ==
  [detectDuplicates |-> TRUE,
   maxOverlapHeight |-> RoundDiv(3 * ElementClientHeight(p), 10)]

\* scrollInfo.scrollableHeight > 0: captureWithScrollAndCrop up to its first
\* await, the scroll to the target's top.
BeginScrollCapture ==
  /\ pc = "isolated"
  /\ CalculateFrames(page, scrollTop).scrollableHeight > 0
  /\ loc' = [targetOffsetTop |-> GetElementOffsetInContainer(page),
             totalFrames |-> TotalFrames(page),
             initialScrollTop |-> scrollTop,
             originalStyle |-> style]
  /\ scrollbarHidden' = TRUE
  /\ style' = HideScrollbarsStyle(style)
  /\ scrollTop' = SetScrollTop(page, 5 * GetElementOffsetInContainer(page))
  /\ hist' = NoteScroll(hist, 5 * GetElementOffsetInContainer(page), FALSE)
  /\ i' = 0
  /\ pc' = "preScroll"
  /\ UNCHANGED <<page, inspActive, inspector, isCapturing, retries, frames, frameReq,
                 frameResp, stitchReq, stitchResp, progressShown, isIsolated, isolatedElements, dom,
                 popup, tabMsgs, downloads, outcome>>

\* otherwise: captureSingleFrame up to its 200 ms wait
BeginSingleCapture ==
  /\ pc = "isolated"
  /\ CalculateFrames(page, scrollTop).scrollableHeight <= 0
  /\ pc' = "single"
  /\ UNCHANGED <<page, scrollTop, inspActive, inspector, isCapturing, loc, i, retries, frames,
                 frameReq, frameResp, stitchReq, stitchResp, progressShown,
                 scrollbarHidden, style, isIsolated, isolatedElements, dom, popup, tabMsgs, downloads, outcome,
                 hist>>

\* the top of the first iteration: scrollTo(scrollContainer, absoluteScrollTop)
EnterFirstFrame ==
  /\ pc = "preScroll"
  /\ scrollTop' = SetScrollTop(page, AbsoluteScrollTop5(page, i))
  /\ hist' = NoteScroll(hist, AbsoluteScrollTop5(page, i), TRUE)
  /\ pc' = "scrolled"
  /\ UNCHANGED <<page, inspActive, inspector, isCapturing, loc, i, retries, frames, frameReq,
                 frameResp, stitchReq, stitchResp, progressShown, scrollbarHidden, style,
                 isIsolated, isolatedElements, dom, popup, tabMsgs, downloads, outcome>>

\* the same with the progress indicator left on the page
AfterScrollProgressKept ==
  /\ pc = "scrolled"
  /\ popup' = Append(popup, ProgressMsg(i + 1, loc.totalFrames))
  /\ pc' = "settle"
  /\ UNCHANGED <<page, scrollTop, inspActive, inspector, isCapturing, loc, i, retries, frames,
                 frameReq, frameResp, stitchReq, stitchResp, progressShown,
                 scrollbarHidden, style, isIsolated, isolatedElements, dom, tabMsgs,
                 downloads, outcome, hist>>

\* after the scroll has settled: onProgress(i + 1, totalFrames), hideProgress(),
\* then the 350 ms wait
AfterScroll ==
  /\ pc = "scrolled"
  /\ popup' = Append(popup, ProgressMsg(i + 1, loc.totalFrames))
  /\ progressShown' = FALSE
  /\ pc' = "settle"
  /\ UNCHANGED <<page, scrollTop, inspActive, inspector, isCapturing, loc, i, retries, frames,
                 frameReq, frameResp, stitchReq, stitchResp, scrollbarHidden, style,
                 isIsolated, isolatedElements, dom, tabMsgs, downloads, outcome, hist>>

\* let retries = 3; first sendMessage({type: 'CAPTURE_FRAME'}) of the frame
RequestFrame ==
  /\ pc = "settle"
  /\ retries' = MaxRetries
  /\ frameReq' = frameReq + 1
  /\ hist' = [hist EXCEPT !.attempts = 1, !.limited = 0]
  /\ pc' = "awaitFrame"
  /\ UNCHANGED <<page, scrollTop, inspActive, inspector, isCapturing, loc, i, frames,
                 frameResp, stitchReq, stitchResp, progressShown, scrollbarHidden, style,
                 isIsolated, isolatedElements, dom, popup, tabMsgs, downloads, outcome>>

\* the same exit with the catch of capture leaving the isolation as it is
FailWithoutForceRestore(h, kind) ==
  /\ scrollbarHidden' = FALSE
  /\ style' = (IF scrollbarHidden THEN RestoreScrollbars(style, loc.originalStyle)
                ELSE style)
  /\ progressShown' = FALSE
  /\ UNCHANGED <<isIsolated, isolatedElements, dom>>
  /\ popup' = Append(popup, Msg("CAPTURE_ERROR"))
  /\ isCapturing' = FALSE
  /\ outcome' = "failed"
  /\ pc' = "idle"
  /\ loc' = NoLocals
  /\ i' = 0
  /\ retries' = 0
  /\ hist' = [h EXCEPT !.active = @ - 1, !.failedAt = i, !.failKind = kind,
                       !.failAttempts = h.attempts, !.failLimited = h.limited,
                       !.attempts = 0,
                       !.limited = 0]

\* The exit of the session by a thrown error: the finally block of the frame
\* loop (scrollbarState.restore, hideProgress), the catch of capture
\* (isolator.forceRestore, hideProgress), and the catch and finally of
\* handleElementSelected (CAPTURE_ERROR, isCapturing = false).
Fail(h, kind) ==
  /\ scrollbarHidden' = FALSE
  /\ style' = (IF scrollbarHidden THEN RestoreScrollbars(style, loc.originalStyle)
                ELSE style)
  /\ progressShown' = FALSE
  /\ isIsolated' = FALSE
  /\ isolatedElements' = << >>
  /\ dom' = ForceRestoreDom(dom)
  /\ popup' = Append(popup, Msg("CAPTURE_ERROR"))
  /\ isCapturing' = FALSE
  /\ outcome' = "failed"
  /\ pc' = "idle"
  /\ loc' = NoLocals
  /\ i' = 0
  /\ retries' = 0
  /\ hist' = [h EXCEPT !.active = @ - 1, !.failedAt = i, !.failKind = kind,
                       !.failAttempts = h.attempts, !.failLimited = h.limited,
                       !.attempts = 0,
                       !.limited = 0]

\* The rest of capture once the frame list fl is returned: isolator.restore,
\* showProgress, STITCHING, and the STITCH_AND_DOWNLOAD request.
SendStitch(fl) ==
  /\ isIsolated' = FALSE
  /\ isolatedElements' = (IF isIsolated THEN << >> ELSE isolatedElements)
  /\ dom' = (IF isIsolated THEN RestoreDom(dom, isolatedElements, 1) ELSE dom)
  /\ progressShown' = TRUE
  /\ popup' = Append(popup, Msg("STITCHING"))
  /\ stitchReq' = [kind |-> "stitch", frames |-> fl, options |-> StitchOptions(page)]
  /\ pc' = "awaitStitch"

\* the FrameRecord with its index counted from 1
FrameRecordIndexFromOne(dataUrl, k) ==
  [dataUrl |-> dataUrl,
   cropRegion |-> CalculateCropRegion(TargetRect(page, scrollTop), ViewportW,
                                      ViewportH(page), page.dpr),
   scrollTop5 |-> RelativeScrollTop5(page, k),
   frameIndex |-> k + 1]

\* the FrameRecord pushed for a successful response
FrameRecord(dataUrl, k) ==
  [dataUrl |-> dataUrl,
   cropRegion |-> CalculateCropRegion(TargetRect(page, scrollTop), ViewportW,
                                      ViewportH(page), page.dpr),
   scrollTop5 |-> RelativeScrollTop5(page, k),
   frameIndex |-> k]

\* response.success: frames.push, showProgress, i++ and, synchronously, the
\* next iteration's scrollTo or, after the last frame, the scrollTo that
\* restores the initial offset.
OnFrameCaptured ==
  /\ pc = "awaitFrame"
  /\ frameResp.kind = "ok"
  /\ frameResp' = None
  /\ frames' = Append(frames, FrameRecord(frameResp.dataUrl, i))
  /\ progressShown' = TRUE
  /\ i' = i + 1
  /\ retries' = 0
  /\ IF i + 1 < loc.totalFrames
     THEN /\ scrollTop' = SetScrollTop(page, AbsoluteScrollTop5(page, i + 1))
          /\ hist' = NoteScroll([hist EXCEPT !.attempts = 0, !.limited = 0],
                                AbsoluteScrollTop5(page, i + 1), TRUE)
          /\ pc' = "scrolled"
     ELSE /\ scrollTop' = SetScrollTop(page, 5 * loc.initialScrollTop)
          /\ hist' = NoteScroll([hist EXCEPT !.attempts = 0, !.limited = 0],
                                5 * loc.initialScrollTop, FALSE)
          /\ pc' = "restoring"
  /\ UNCHANGED <<page, inspActive, inspector, isCapturing, loc, frameReq, stitchReq,
                 stitchResp, scrollbarHidden, style, isIsolated, isolatedElements, dom, popup, tabMsgs, downloads,
                 outcome>>

\* every failed response taken for a rate limit
IsRateLimitedAny(response) == response.kind \in {"quota", "error"}

\* response.error && response.error.includes('quota')
IsRateLimited(response) == response.kind = "quota"

\* a rate-limited response answered by a new request at once, the retry
\* counter untouched
OnFrameRateLimitedForever ==
  /\ pc = "awaitFrame"
  /\ frameResp.kind \in {"quota", "error"}
  /\ IsRateLimited(frameResp)
  /\ frameResp' = None
  /\ frameReq' = frameReq + 1
  /\ hist' = [hist EXCEPT !.limited = @ + 1, !.attempts = @ + 1]
  /\ UNCHANGED <<page, scrollTop, inspActive, inspector, isCapturing, pc, loc, i, retries,
                 frames, stitchReq, stitchResp, progressShown, scrollbarHidden, style,
                 isIsolated, isolatedElements, dom, popup, tabMsgs, downloads,
                 outcome>>

\* a failed response that is rate-limited: the 500 ms backoff
OnFrameRateLimited ==
  /\ pc = "awaitFrame"
  /\ frameResp.kind \in {"quota", "error"}
  /\ IsRateLimited(frameResp)
  /\ frameResp' = None
  /\ pc' = "backoff"
  /\ hist' = [hist EXCEPT !.limited = @ + 1]
  /\ UNCHANGED <<page, scrollTop, inspActive, inspector, isCapturing, loc, i, retries, frames,
                 frameReq, stitchReq, stitchResp, progressShown, scrollbarHidden, style,
                 isIsolated, isolatedElements, dom, popup, tabMsgs, downloads, outcome>>

\* any other failure swallowed: the loop goes on with the next frame
OnFrameErrorSkipped ==
  /\ pc = "awaitFrame"
  /\ frameResp.kind \in {"quota", "error"}
  /\ ~IsRateLimited(frameResp)
  /\ frameResp' = None
  /\ i' = i + 1
  /\ retries' = 0
  /\ IF i + 1 < loc.totalFrames
     THEN /\ scrollTop' = SetScrollTop(page, AbsoluteScrollTop5(page, i + 1))
          /\ hist' = NoteScroll([hist EXCEPT !.attempts = 0, !.limited = 0],
                                AbsoluteScrollTop5(page, i + 1), TRUE)
          /\ pc' = "scrolled"
     ELSE /\ scrollTop' = SetScrollTop(page, 5 * loc.initialScrollTop)
          /\ hist' = NoteScroll([hist EXCEPT !.attempts = 0, !.limited = 0],
                                5 * loc.initialScrollTop, FALSE)
          /\ pc' = "restoring"
  /\ UNCHANGED <<page, inspActive, inspector, isCapturing, loc, frames, frameReq, stitchReq,
                 stitchResp, progressShown, scrollbarHidden, style, isIsolated, isolatedElements, dom, popup,
                 tabMsgs, downloads, outcome>>

\* any other failure: throw new Error(...)
OnFrameError ==
  /\ pc = "awaitFrame"
  /\ frameResp.kind \in {"quota", "error"}
  /\ ~IsRateLimited(frameResp)
  /\ frameResp' = None
  /\ Fail(hist, "error")
  /\ UNCHANGED <<page, scrollTop, inspActive, inspector, frames, frameReq, stitchReq,
                 stitchResp, tabMsgs, downloads>>

\* the retry loop with while (retries >= 0)
RetryFrameOffByOne ==
  /\ pc = "backoff"
  /\ retries - 1 >= 0
  /\ retries' = retries - 1
  /\ frameReq' = frameReq + 1
  /\ hist' = [hist EXCEPT !.attempts = @ + 1]
  /\ pc' = "awaitFrame"
  /\ UNCHANGED <<page, scrollTop, inspActive, inspector, isCapturing, loc, i, frames,
                 frameResp, stitchReq, stitchResp, progressShown, scrollbarHidden, style,
                 isIsolated, isolatedElements, dom, popup, tabMsgs, downloads, outcome>>

\* retries--; while (retries > 0): the next sendMessage of the same frame
RetryFrame ==
  /\ pc = "backoff"
  /\ retries - 1 > 0
  /\ retries' = retries - 1
  /\ frameReq' = frameReq + 1
  /\ hist' = [hist EXCEPT !.attempts = @ + 1]
  /\ pc' = "awaitFrame"
  /\ UNCHANGED <<page, scrollTop, inspActive, inspector, isCapturing, loc, i, frames,
                 frameResp, stitchReq, stitchResp, progressShown, scrollbarHidden, style,
                 isIsolated, isolatedElements, dom, popup, tabMsgs, downloads, outcome>>

\* the loop given up after the second rate-limited response
RetriesExhaustedEarly ==
  /\ pc = "backoff"
  /\ retries - 1 <= 1
  /\ Fail(hist, "quota")
  /\ UNCHANGED <<page, scrollTop, inspActive, inspector, frames, frameReq, frameResp,
                 stitchReq, stitchResp, tabMsgs, downloads>>

\* retries-- reaches 0: if (!response.success) throw
RetriesExhausted ==
  /\ pc = "backoff"
  /\ retries - 1 <= 0
  /\ Fail(hist, "quota")
  /\ UNCHANGED <<page, scrollTop, inspActive, inspector, frames, frameReq, frameResp,
                 stitchReq, stitchResp, tabMsgs, downloads>>

\* the restoring scroll has settled: the finally block, return frames, and the
\* rest of capture
AfterRestore ==
  /\ pc = "restoring"
  /\ scrollbarHidden' = FALSE
  /\ style' = RestoreScrollbars(style, loc.originalStyle)
  /\ loc' = NoLocals
  /\ i' = 0
  /\ SendStitch(frames)
  /\ UNCHANGED <<page, scrollTop, inspActive, inspector, isCapturing, retries, frames,
                 frameReq, frameResp, stitchResp, tabMsgs, downloads, outcome, hist>>

----------------------------------------------------------------------------
(* Scroller.captureSingleFrame                                              *)

\* after the 200 ms wait: the one sendMessage({type: 'CAPTURE_FRAME'})
RequestSingleFrame ==
  /\ pc = "single"
  /\ frameReq' = frameReq + 1
  /\ hist' = [hist EXCEPT !.attempts = 1, !.limited = 0]
  /\ pc' = "awaitSingle"
  /\ UNCHANGED <<page, scrollTop, inspActive, inspector, isCapturing, loc, i, retries, frames,
                 frameResp, stitchReq, stitchResp, progressShown, scrollbarHidden, style,
                 isIsolated, isolatedElements, dom, popup, tabMsgs, downloads, outcome>>

\* the snapshot recorded as two frames
OnSingleCapturedTwice ==
  /\ pc = "awaitSingle"
  /\ frameResp.kind = "ok"
  /\ frameResp' = None
  /\ frames' = << [FrameRecord(frameResp.dataUrl, 0) EXCEPT !.scrollTop5 = 0],
                  [FrameRecord(frameResp.dataUrl, 1) EXCEPT !.scrollTop5 = 0] >>
  /\ hist' = [hist EXCEPT !.attempts = 0, !.limited = 0]
  /\ SendStitch(frames')
  /\ UNCHANGED <<page, scrollTop, inspActive, inspector, isCapturing, loc, i, retries, frameReq,
                 stitchResp, scrollbarHidden, style, tabMsgs, downloads, outcome>>

\* the response is successful: return the one frame, and the rest of capture
OnSingleCaptured ==
  /\ pc = "awaitSingle"
  /\ frameResp.kind = "ok"
  /\ frameResp' = None
  /\ frames' = << [FrameRecord(frameResp.dataUrl, 0) EXCEPT !.scrollTop5 = 0] >>
  /\ hist' = [hist EXCEPT !.attempts = 0, !.limited = 0]
  /\ SendStitch(frames')
  /\ UNCHANGED <<page, scrollTop, inspActive, inspector, isCapturing, loc, i, retries, frameReq,
                 stitchResp, scrollbarHidden, style, tabMsgs, downloads, outcome>>

\* if (!response.success) throw: no retry here
OnSingleFailed ==
  /\ pc = "awaitSingle"
  /\ frameResp.kind \in {"quota", "error"}
  /\ frameResp' = None
  /\ Fail(hist, frameResp.kind)
  /\ UNCHANGED <<page, scrollTop, inspActive, inspector, frames, frameReq, stitchReq,
                 stitchResp, tabMsgs, downloads>>

\* the STITCH_AND_DOWNLOAD response arrives (its success field is not read):
\* hideProgress, capture returns, finally isCapturing = false
OnStitchResponse ==
  /\ pc = "awaitStitch"
  /\ stitchResp # None
  /\ stitchResp' = None
  /\ progressShown' = FALSE
  /\ isCapturing' = FALSE
  /\ outcome' = "complete"
  /\ pc' = "idle"
  /\ hist' = [hist EXCEPT !.active = @ - 1]
  /\ UNCHANGED <<page, scrollTop, inspActive, inspector, loc, i, retries, frames, frameReq,
                 frameResp, stitchReq, scrollbarHidden, style, isIsolated, isolatedElements, dom, popup, tabMsgs,
                 downloads>>

----------------------------------------------------------------------------
(* background.js: the message listener                                      *)

\* CAPTURE_FRAME, captureVisibleTab resolves: {success: true, dataUrl}
BgFrameCaptured ==
  /\ frameReq > 0
  /\ frameResp = None
  /\ frameReq' = frameReq - 1
  /\ frameResp' = [kind |-> "ok",
                   dataUrl |-> [kind |-> "tab", page |-> page,
                                shot |-> [scrollTop |-> scrollTop,
                                          progress |-> progressShown]]]
  /\ UNCHANGED <<page, scrollTop, inspActive, inspector, isCapturing, pc, loc, i, retries,
                 frames, stitchReq, stitchResp, progressShown, scrollbarHidden, style,
                 isIsolated, isolatedElements, dom, popup, tabMsgs, downloads, outcome, hist>>

\* CAPTURE_FRAME, captureVisibleTab rejects with the host's
\* MAX_CAPTURE_VISIBLE_TAB_CALLS_PER_SECOND quota error
BgFrameRateLimited ==
  /\ frameReq > 0
  /\ frameResp = None
  /\ frameReq' = frameReq - 1
  /\ frameResp' = [kind |-> "quota"]
  /\ UNCHANGED <<page, scrollTop, inspActive, inspector, isCapturing, pc, loc, i, retries,
                 frames, stitchReq, stitchResp, progressShown, scrollbarHidden, style,
                 isIsolated, isolatedElements, dom, popup, tabMsgs, downloads, outcome, hist>>

\* CAPTURE_FRAME, captureVisibleTab rejects with any other error
BgFrameError ==
  /\ frameReq > 0
  /\ frameResp = None
  /\ frameReq' = frameReq - 1
  /\ frameResp' = [kind |-> "error"]
  /\ UNCHANGED <<page, scrollTop, inspActive, inspector, isCapturing, pc, loc, i, retries,
                 frames, stitchReq, stitchResp, progressShown, scrollbarHidden, style,
                 isIsolated, isolatedElements, dom, popup, tabMsgs, downloads, outcome, hist>>

\* what is observed of a call of stitchFrames: its arguments and its result r
\* without the pixels
StitchSummary(r, request) ==
  IF r.ok
  THEN [kind |-> "stitched", ok |-> TRUE, width |-> r.width, height |-> r.height,
        overlaps |-> r.overlaps, currentY |-> r.currentY,
        detectCalls |-> r.detectCalls,
        frames |-> request.frames, options |-> request.options]
  ELSE [kind |-> "stitched", ok |-> FALSE,
        frames |-> request.frames, options |-> request.options]

\* the same with no response sent when stitching or the download throws
BgStitchAndDownloadUnanswered ==
  /\ stitchReq # None
  /\ stitchResp = None
  /\ \E r \in {StitchFrames(stitchReq.frames, stitchReq.options)},
        downloadOk \in BOOLEAN :
       /\ hist' = [hist EXCEPT !.stitched = StitchSummary(r, stitchReq)]
       /\ IF r.ok /\ downloadOk
          THEN /\ downloads' = Append(downloads, [width |-> r.width,
                                                  height |-> r.height,
                                                  data |-> r.data])
               /\ tabMsgs' = Append(tabMsgs, Msg("CAPTURE_COMPLETE"))
               /\ stitchResp' = [kind |-> "response", success |-> TRUE]
          ELSE /\ downloads' = downloads
               /\ tabMsgs' = Append(tabMsgs, Msg("CAPTURE_ERROR"))
               /\ stitchResp' = stitchResp
  /\ stitchReq' = None
  /\ UNCHANGED <<page, scrollTop, inspActive, inspector, isCapturing, pc, loc, i, retries,
                 frames, frameReq, frameResp, progressShown, scrollbarHidden, style,
                 isIsolated, isolatedElements, dom, popup, outcome>>

\* STITCH_AND_DOWNLOAD: stitchFrames, downloadImage, then CAPTURE_COMPLETE and
\* {success: true}; or, when either throws, CAPTURE_ERROR and {success: false}.
BgStitchAndDownload ==
  /\ stitchReq # None
  /\ stitchResp = None
  /\ \E r \in {StitchFrames(stitchReq.frames, stitchReq.options)},
        downloadOk \in BOOLEAN :
       /\ hist' = [hist EXCEPT !.stitched = StitchSummary(r, stitchReq)]
       /\ IF r.ok /\ downloadOk
          THEN /\ downloads' = Append(downloads, [width |-> r.width,
                                                  height |-> r.height,
                                                  data |-> r.data])
               /\ tabMsgs' = Append(tabMsgs, Msg("CAPTURE_COMPLETE"))
               /\ stitchResp' = [kind |-> "response", success |-> TRUE]
          ELSE /\ downloads' = downloads
               /\ tabMsgs' = Append(tabMsgs, Msg("CAPTURE_ERROR"))
               /\ stitchResp' = [kind |-> "response", success |-> FALSE]
  /\ stitchReq' = None
  /\ UNCHANGED <<page, scrollTop, inspActive, inspector, isCapturing, pc, loc, i, retries,
                 frames, frameReq, frameResp, progressShown, scrollbarHidden, style,
                 isIsolated, isolatedElements, dom, popup, outcome>>

----------------------------------------------------------------------------
(* Specification                                                            *)

Next ==
  \/ StartInspector
  \/ CancelInspector
  \/ HandleElementSelected
  \/ HandleClickWhileCapturing
  \/ BeginScrollCapture
  \/ BeginSingleCapture
  \/ EnterFirstFrame
  \/ AfterScroll
  \/ RequestFrame
  \/ OnFrameCaptured
  \/ OnFrameRateLimited
  \/ OnFrameError
  \/ RetryFrame
  \/ RetriesExhausted
  \/ AfterRestore
  \/ RequestSingleFrame
  \/ OnSingleCaptured
  \/ OnSingleFailed
  \/ OnStitchResponse
  \/ BgFrameCaptured
  \/ BgFrameRateLimited
  \/ BgFrameError
  \/ BgStitchAndDownload

Spec == Init /\ [][Next]_vars

----------------------------------------------------------------------------
(* stitchFrames on its own: the background receives STITCH_AND_DOWNLOAD with *)
(* a frame list and options of any sender.                                  *)

\* the rows first .. first + count - 1
RowRange(first, count) == [r \in 1 .. count |-> first + r - 1]

\* A frame that is a picture of `count` rows from content row `first` on (all
\* of row 0 when flat), `width` wide, cropped to its full size.
RowsFrame(first, count, width, flat, k) ==
  [dataUrl |-> [kind |-> "rows", width |-> width,
                rows |-> IF flat THEN [r \in 1 .. count |-> 0]
                         ELSE RowRange(first, count)],
   cropRegion |-> [x |-> 0, y |-> 0, width |-> width, height |-> count],
   scrollTop5 |-> 5 * first,
   frameIndex |-> k]

\* Frame lists of n frames taken `step` rows apart (the last one lastStep
\* rows after the one before it), each `height` rows tall (the last one
\* lastHeight) and `width` wide, except frame `odd`, which is one pixel wider.
ScanFrames(n, height, lastHeight, step, lastStep, width, odd, flat) ==
  [k \in 1 .. n |->
     RowsFrame(IF k = 1 THEN 0
               ELSE IF k < n THEN (k - 1) * step
               ELSE (n - 2) * step + lastStep,
               IF k < n THEN height ELSE lastHeight,
               IF k = odd THEN width + 1 ELSE width,
               flat, k - 1)]

SmallStitchRequests ==
  { [kind |-> "stitch",
     frames |-> ScanFrames(n, h, hl, st, sl, w, odd, flat),
     options |-> [detectDuplicates |-> dd, maxOverlapHeight |-> m]] :
      n \in 1 .. MaxFrames, h \in 1 .. MaxRows, hl \in 0 .. MaxRows,
      st \in 0 .. MaxRows, sl \in 0 .. MaxRows, w \in 1 .. 2,
      odd \in 0 .. MaxFrames, flat \in BOOLEAN, dd \in BOOLEAN,
      m \in 0 .. MaxRows + 1 }

\* The documented stitch scenario: three frames 100 rows tall and 50 wide, the
\* second starting 80 rows after the first, the third `gap` rows after the
\* second's last row.
ScenarioFrames(first, gap) ==
  << RowsFrame(first, 100, 50, FALSE, 0),
     RowsFrame(first + 80, 100, 50, FALSE, 1),
     RowsFrame(first + 180 + gap, 100, 50, FALSE, 2) >>

\* with the options capture() passes for an element 100 rows tall, with the
\* default maxOverlapHeight of stitchFrames, and with the options capture()
\* passes for an element 50 CSS pixels tall shown at device pixel ratio 2
ScenarioStitchRequests ==
  { [kind |-> "stitch", frames |-> ScenarioFrames(first, gap),
     options |-> [detectDuplicates |-> TRUE, maxOverlapHeight |-> 30]] :
      first \in {0, 7}, gap \in {0, 300} }
  \cup { [kind |-> "stitch", frames |-> ScenarioFrames(0, 0),
          options |-> [detectDuplicates |-> TRUE, maxOverlapHeight |-> m]] :
           m \in {200, 15} }

\* Two frames of two rows: the first one pixel wide with both rows alike, the
\* second two pixels wide with different rows.
MixedWidthRequests ==
  { [kind |-> "stitch",
     frames |-> << RowsFrame(0, 2, 1, TRUE, 0), RowsFrame(0, 2, 2, FALSE, 1) >>,
     options |-> [detectDuplicates |-> TRUE, maxOverlapHeight |-> 2]] }

\* two frames wider than twice the number of samples, so that every other
\* column is sampled; the second starts one row below the first
WideWidth == 2 * MaxSamples + 1

WideStitchRequests ==
  { [kind |-> "stitch",
     frames |-> << RowsFrame(0, 2, WideWidth, FALSE, 0),
                   RowsFrame(1, 2, WideWidth, FALSE, 1) >>,
     options |-> [detectDuplicates |-> TRUE, maxOverlapHeight |-> 2]] }

StitchRequests == SmallStitchRequests \cup ScenarioStitchRequests \cup MixedWidthRequests

InitStitch ==
  /\ page = ScenarioPage
  /\ scrollTop = 0
  /\ inspActive = FALSE
  /\ inspector = NewInspector("content")
  /\ isCapturing = FALSE
  /\ pc = "idle"
  /\ loc = NoLocals
  /\ i = 0
  /\ retries = 0
  /\ frames = << >>
  /\ frameReq = 0
  /\ frameResp = None
  /\ stitchReq \in StitchRequests
  /\ stitchResp = None
  /\ progressShown = FALSE
  /\ scrollbarHidden = FALSE
  /\ style = << >>
  /\ isIsolated = FALSE
  /\ isolatedElements = << >>
  /\ dom \in Doms(page)
  /\ popup = << >>
  /\ tabMsgs = << >>
  /\ downloads = << >>
  /\ outcome = "none"
  /\ hist = NewHist(0, 0)

NextStitch == BgStitchAndDownload

SpecStitch == InitStitch /\ [][NextStitch]_vars

----------------------------------------------------------------------------
(* The capture pipeline under the assumption that every wait of the content *)
(* script ends and every message to the background is answered.            *)

\* pages of one frame, of two frames and of the largest number of frames
LivePages ==
  { p \in SelfPages :
      /\ p.clientHeight = MaxClient - 1
      /\ p.scrollHeight - p.clientHeight \in {0, 1, MaxExtra} }

InitLive ==
  /\ page \in LivePages
  /\ scrollTop \in {0, MaxScrollTop(page)}
  /\ inspActive = FALSE
  /\ inspector = NewInspector("content")
  /\ isCapturing = FALSE
  /\ pc = "idle"
  /\ loc = NoLocals
  /\ i = 0
  /\ retries = 0
  /\ frames = << >>
  /\ frameReq = 0
  /\ frameResp = None
  /\ stitchReq = None
  /\ stitchResp = None
  /\ progressShown = FALSE
  /\ scrollbarHidden = FALSE
  /\ style = << >>
  /\ isIsolated = FALSE
  /\ isolatedElements = << >>
  /\ dom \in Doms(page)
  /\ popup = << >>
  /\ tabMsgs = << >>
  /\ downloads = << >>
  /\ outcome = "none"
  /\ hist = NewHist(0, scrollTop)

\* the steps of a running session: the continuations of the content script's
\* awaits and the background's answers to CAPTURE_FRAME
SessionStep ==
  \/ BeginScrollCapture
  \/ BeginSingleCapture
  \/ EnterFirstFrame
  \/ AfterScroll
  \/ RequestFrame
  \/ OnFrameCaptured
  \/ OnFrameRateLimited
  \/ OnFrameError
  \/ RetryFrame
  \/ RetriesExhausted
  \/ AfterRestore
  \/ RequestSingleFrame
  \/ OnSingleCaptured
  \/ OnSingleFailed
  \/ OnStitchResponse
  \/ BgFrameCaptured
  \/ BgFrameRateLimited
  \/ BgFrameError

\* a STITCH_AND_DOWNLOAD request is waiting for the listener
StitchPending == stitchReq # None /\ stitchResp = None

\* Every wait ends and every message is answered.  For the stitch request
\* this is the weak fairness of BgStitchAndDownload, an action that is enabled
\* exactly while StitchPending holds and that ends it: StitchPending does not
\* hold for ever.
SpecLive ==
  InitLive /\ [][Next]_vars /\ WF_vars(SessionStep) /\ []<>(~StitchPending)

----------------------------------------------------------------------------
(* Observations the properties are stated in                                *)

\* STITCH_AND_DOWNLOAD was sent in the current session (it is sent in the same
\* step as the STITCHING status)
StitchSent == \E k \in 1 .. Len(popup) : popup[k].type = "STITCHING"

\* the failure of the current session was reported to the popup
ErrorReported == \E k \in 1 .. Len(popup) : popup[k].type = "CAPTURE_ERROR"

\* the current session took the scrolling path
ScrollSession == hist.scrollCalls # << >>

\* the frame loop of the current session has ended, one way or the other
LoopEnded == ScrollSession /\ pc \in {"restoring", "awaitStitch", "idle"}

\* the frame loop of the current session ran through all its frames
LoopCompleted ==
  /\ ScrollSession
  /\ pc \in {"restoring", "awaitStitch"} \/ (pc = "idle" /\ outcome = "complete")

\* requests for a snapshot that are sent and not yet answered to the loop
OutstandingFrameRequests == frameReq + (IF frameResp = None THEN 0 ELSE 1)

\* the image of all content rows of p, once each and in order
ContentImage(p) ==
  [width |-> PageWidth, height |-> p.scrollHeight,
   data |-> [k \in 1 .. PageWidth * p.scrollHeight * 4 |->
               ContentByte(((k - 1) \div 4) \div PageWidth, (k - 1) % 4)]]

\* the downloaded image of the current session, if there is one
Downloaded == tabMsgs # << >> /\ tabMsgs[Len(tabMsgs)].type = "CAPTURE_COMPLETE"

----------------------------------------------------------------------------
(* Properties                                                               *)

\* C1: for a scrollable element that is its own scroll container, at device
\* pixel ratio 1, a capture that ran through and was stitched and downloaded
\* yields the image of every content row once and in order, scrollHeight rows
\* tall.
C1_CompositeIsContent ==
  (page.self /\ page.dpr = 1 /\ page.scrollHeight > page.clientHeight
     /\ outcome = "complete" /\ Downloaded)
    => downloads[Len(downloads)] = ContentImage(page)

\* C2: once the frame loop has ended, after its last frame or by a thrown
\* snapshot error, the container is back at the offset it had when the
\* session began; in particular it is there when CAPTURE_ERROR has been sent.
C2_ScrollRestored == LoopEnded => scrollTop = hist.initialScrollTop

\* C3: a frame of a scroll capture gets at most 3 CAPTURE_FRAME requests; a
\* rate-limited answer leads to the backoff, the backoff to a retry of the same
\* frame while fewer than 3 answers were rate-limited and to the failure of the
\* session after the third; the failed session has no request outstanding and
\* no frame after the one that failed.
C3_RetryBudget ==
  /\ [](/\ hist.attempts <= 3
        /\ pc = "idle" => (frameReq = 0 /\ frameResp = None)
        /\ (ScrollSession /\ outcome = "failed" /\ hist.failKind = "quota")
             => (hist.failAttempts = 3 /\ Len(frames) = hist.failedAt))
  /\ [][/\ (pc = "awaitFrame" /\ frameResp.kind = "quota" /\ frameResp' = None)
             => (pc' = "backoff" /\ isCapturing' /\ frameReq' = 0)
        /\ (pc = "backoff" /\ pc' # "backoff")
             => IF hist.limited < 3
                THEN /\ pc' = "awaitFrame"
                     /\ i' = i
                     /\ frameReq' = 1
                     /\ hist'.attempts = hist.attempts + 1
                ELSE /\ pc' = "idle"
                     /\ outcome' = "failed"
                     /\ ~isCapturing'
                     /\ frameReq' = 0
                     /\ frames' = frames
                     /\ popup'[Len(popup')].type = "CAPTURE_ERROR"]_vars

C3_Witness ==
  /\ ScrollSession
  /\ outcome = "failed"
  /\ hist.failKind = "quota"
  /\ hist.failAttempts = 3
  /\ hist.failedAt >= 1

\* C4: an answer that fails without the rate-limit signal ends the session at
\* once: the frame has had one request more than it had rate-limited answers,
\* the failure is reported, nothing is requested afterwards and no frame is
\* added.
C4_ErrorAborts ==
  /\ [][(pc = "awaitFrame" /\ frameResp.kind = "error" /\ frameResp' # frameResp)
          => /\ pc' = "idle"
             /\ outcome' = "failed"
             /\ ~isCapturing'
             /\ frameReq' = 0
             /\ frameResp' = None
             /\ frames' = frames
             /\ hist.attempts = hist.limited + 1
             /\ hist'.failAttempts = hist.attempts
             /\ hist'.failedAt = i
             /\ popup'[Len(popup')].type = "CAPTURE_ERROR"]_vars
  /\ []((ScrollSession /\ outcome = "failed" /\ hist.failKind = "error")
          => /\ hist.failAttempts = hist.failLimited + 1
             /\ Len(frames) = hist.failedAt
             /\ OutstandingFrameRequests = 0)

C4_Witness ==
  /\ ScrollSession
  /\ outcome = "failed"
  /\ hist.failKind = "error"
  /\ hist.failLimited = 2
  /\ hist.failAttempts = 3
  /\ hist.failedAt >= 1

\* C5: STITCH_AND_DOWNLOAD is sent, and an image downloaded, only in a session
\* whose frame list holds all totalFrames frames, in order; a session in which
\* a frame failed sends no stitch request and downloads nothing.
C5_StitchOnlyComplete ==
  /\ [](/\ (StitchSent \/ stitchReq # None)
             => /\ Len(frames) = (IF ScrollSession THEN TotalFrames(page) ELSE 1)
                /\ \A k \in 1 .. Len(frames) : frames[k].frameIndex = k - 1
                /\ hist.failedAt = -1
                /\ outcome # "failed"
        /\ tabMsgs # << >> => StitchSent
        /\ outcome = "failed"
             => (~StitchSent /\ stitchReq = None /\ tabMsgs = << >>
                   /\ hist.stitched = None))
  /\ [][downloads' # downloads
          => (StitchSent /\ stitchReq # None /\ outcome # "failed"
                /\ stitchReq.frames = frames)]_vars

C5_Witness ==
  /\ ScrollSession
  /\ TotalFrames(page) >= 3
  /\ outcome = "complete"
  /\ Downloaded
  /\ hist.sessions = 2

\* C6: at most one session is active and at most one CAPTURE_FRAME request is
\* outstanding, whatever the order of selections, inspector messages and
\* answers; while isCapturing holds no step starts a session.
C6_OneSession ==
  /\ [](/\ hist.active <= 1
        /\ isCapturing <=> hist.active = 1
        /\ OutstandingFrameRequests <= 1
        /\ OutstandingFrameRequests = 1 => pc \in {"awaitFrame", "awaitSingle"})
  /\ [][isCapturing
          => /\ hist'.sessions = hist.sessions
             /\ pc' = "isolated" => pc = "isolated"
             /\ frames' # frames => Len(frames') = Len(frames) + 1]_vars

C6_Witness ==
  /\ isCapturing
  /\ hist.ignored
  /\ pc = "awaitFrame"
  /\ OutstandingFrameRequests = 1
  /\ Len(frames) >= 1

\* C7: after CANCEL_INSPECTOR has arrived between two frames, no further
\* snapshot is requested, nothing is stitched or downloaded, and the session
\* ends restored with an outcome of its own, neither completion nor failure.
C7_CancelStopsCapture ==
  hist.cancelled
    => /\ hist.attempts = 0
       /\ OutstandingFrameRequests = 0
       /\ ~StitchSent
       /\ ~Downloaded
       /\ pc = "idle" => (outcome = "cancelled" /\ scrollTop = hist.initialScrollTop)

C9_DocumentedScenario ==
  (page = ScenarioPage /\ LoopCompleted)
    => (Len(frames) = 4 /\ hist.loopCalls = << 0, 2000, 4000, 5000 >>)

\* C9 as the code has it: for scrollHeight 1000 and clientHeight 500 the step
\* is 400, the loop takes 3 frames and scrolls to 0, 400, 500 in that order
\* (in fifths: 0, 2000, 2500).
C9_Scenario ==
  (page = ScenarioPage /\ ScrollSession)
    => /\ Len(hist.loopCalls) <= 3
       /\ \A k \in 1 .. Len(hist.loopCalls) :
            hist.loopCalls[k] = << 0, 2000, 2500 >>[k]
       /\ Len(hist.loopCalls) >= 2 => hist.loopCalls[2] - hist.loopCalls[1] = 5 * 400
       /\ pc \in {"preScroll", "scrolled", "settle", "awaitFrame", "backoff",
                  "restoring"} => loc.totalFrames = 3
       /\ LoopCompleted
            => /\ Len(frames) = 3
               /\ hist.loopCalls = << 0, 2000, 2500 >>
               /\ \A k \in 1 .. 3 : frames[k].scrollTop5 = hist.loopCalls[k]

C9_Witness ==
  /\ page = ScenarioPage
  /\ pc = "restoring"
  /\ Len(frames) = 3
  /\ hist.loopCalls = << 0, 2000, 2500 >>

\* C10: every offset the frame loop passes to scrollTo is at most the
\* container's scrollHeight - clientHeight (offsets are in fifths of a pixel).
C10_OffsetsInRange ==
  \A k \in 1 .. Len(hist.loopCalls) :
    hist.loopCalls[k] <= 5 * (page.scrollHeight - page.clientHeight)

\* the composite row at which frame k of a frame list is placed when every
\* frame before it contributes its rows below its overlap
RECURSIVE PlacedAt(_, _, _)
PlacedAt(cropped, overlaps, k) ==
  IF k = 1 THEN 0
  ELSE PlacedAt(cropped, overlaps, k - 1) + cropped[k - 1].height
         - (IF k - 1 > 1 THEN overlaps[k - 1] ELSE 0)

\* img holds, for every frame k in list order, that frame's rows from its
\* overlap on, one frame right below the other, and nothing else
PlacedInOrder(img, cropped, overlaps) ==
  /\ img.height = PlacedAt(cropped, overlaps, Len(overlaps) + 1)
  /\ \A k \in 1 .. Len(overlaps) :
       LET frame == cropped[k]
           sourceY == IF k = 1 THEN 0 ELSE overlaps[k]
           y == PlacedAt(cropped, overlaps, k)
           w == frame.width
       IN /\ w = img.width
          /\ \A q \in sourceY * w * 4 + 1 .. frame.height * w * 4 :
               img.data[(y - sourceY) * w * 4 + q] = frame.data[q]

\* C11: in a capture of several frames the offsets recorded with consecutive
\* frames, and the offsets the loop scrolls to, increase strictly; record k
\* of the list has frameIndex k - 1; a loop that ran through holds totalFrames
\* records; and the downloaded composite holds the frames in list order, each
\* from its overlap on, none left out.
C11_FrameOrder ==
  /\ \A k \in 1 .. Len(frames) : frames[k].frameIndex = k - 1
  /\ \A k \in 2 .. Len(frames) : frames[k].scrollTop5 > frames[k - 1].scrollTop5
  /\ \A k \in 2 .. Len(hist.loopCalls) :
       hist.loopCalls[k] > hist.loopCalls[k - 1]
  /\ LoopCompleted => Len(frames) = TotalFrames(page)
  /\ (Downloaded /\ stitchResp # None)
       => /\ Len(hist.stitched.overlaps) = Len(frames)
          /\ PlacedInOrder(downloads[Len(downloads)], CroppedFrames(frames),
                           hist.stitched.overlaps)

C11_Witness ==
  /\ ScrollSession
  /\ Downloaded
  /\ stitchResp # None
  /\ Len(frames) >= 3
  /\ \E k \in 2 .. Len(frames) : hist.stitched.overlaps[k] > 0

\* C12: onProgress(k, totalFrames) is called only after the snapshot of the
\* k-th frame has succeeded: at every moment each progress report made in the
\* session names at most as many frames as have been captured so far.
C12_ProgressAfterFrame ==
  \A k \in 1 .. Len(popup) :
    popup[k].type = "CAPTURE_PROGRESS" => popup[k].current <= Len(frames)

\* C13: when the STITCH_AND_DOWNLOAD response carries success = false (the
\* background reported CAPTURE_ERROR for the stitch or the download), the
\* session ends as failed and handleElementSelected reports CAPTURE_ERROR.
C13_StitchFailureFails ==
  (/\ pc = "idle"
   /\ outcome # "none"
   /\ hist.stitched.kind = "stitched"
   /\ tabMsgs # << >>
   /\ tabMsgs[Len(tabMsgs)].type = "CAPTURE_ERROR")
    => (outcome = "failed" /\ ErrorReported)

\* the sum of the rows of the crop rectangles of the frames 1 .. k of fs
RECURSIVE SumCropHeights(_, _)
SumCropHeights(fs, k) ==
  IF k = 0 THEN 0 ELSE SumCropHeights(fs, k - 1) + fs[k].cropRegion.height

\* the sum of the entries 2 .. k of a list of overlaps
RECURSIVE SumOverlaps(_, _)
SumOverlaps(overlaps, k) ==
  IF k <= 1 THEN 0 ELSE SumOverlaps(overlaps, k - 1) + overlaps[k]

\* stitchFrames returned a composite for the request the background received
Stitched == hist.stitched.kind = "stitched" /\ hist.stitched.ok

\* C14: whenever stitchFrames produces a composite, for whatever frames and
\* options, its height is the sum of the cropped frames' heights minus the sum
\* of the overlaps of the frames after the first, the first overlap is 0, and
\* the write cursor after the last frame equals that height; the downloaded
\* image has that height.
C14_CompositeHeight ==
  Stitched =>
    LET s == hist.stitched
        n == Len(s.frames)
    IN /\ Len(s.overlaps) = n
       /\ s.overlaps[1] = 0
       /\ s.height = SumCropHeights(s.frames, n) - SumOverlaps(s.overlaps, n)
       /\ s.currentY = s.height
       /\ Downloaded => downloads[Len(downloads)].height = s.height

C14_Witness ==
  /\ Stitched
  /\ Downloaded
  /\ Len(hist.stitched.frames) >= 3
  /\ \E k \in 2 .. Len(hist.stitched.frames) : hist.stitched.overlaps[k] > 0
  /\ \E k \in 2 .. Len(hist.stitched.frames) : hist.stitched.overlaps[k] = 0

\* the largest overlap the options and the heights of the crop rectangles of
\* the frames k - 1 and k of fs allow
OverlapLimit(fs, options, k) ==
  Min(options.maxOverlapHeight,
      Min(fs[k - 1].cropRegion.height, fs[k].cropRegion.height))

\* C15: with maxOverlapHeight > 0, the overlap the stitcher computes for every
\* pair of consecutive frames is at least 0 and at most the smallest of
\* maxOverlapHeight and the two cropped heights, so the number of rows copied
\* from a frame is never negative.
C15_OverlapBounds ==
  (Stitched /\ hist.stitched.options.maxOverlapHeight > 0) =>
    LET s == hist.stitched IN
    \A k \in 2 .. Len(s.frames) :
      /\ 0 <= s.overlaps[k]
      /\ s.overlaps[k] <= OverlapLimit(s.frames, s.options, k)
      /\ s.frames[k].cropRegion.height - s.overlaps[k] >= 0

C15_Witness ==
  /\ Stitched
  /\ hist.stitched.options.maxOverlapHeight > 0
  /\ \E k \in 2 .. Len(hist.stitched.frames) :
       /\ hist.stitched.overlaps[k] = OverlapLimit(hist.stitched.frames,
                                                   hist.stitched.options, k)
       /\ hist.stitched.overlaps[k] = hist.stitched.frames[k].cropRegion.height
       /\ hist.stitched.overlaps[k] < hist.stitched.options.maxOverlapHeight
       /\ hist.stitched.overlaps[k] < hist.stitched.frames[k - 1].cropRegion.height

\* the bottom h rows of cropped frame k - 1 and the top h rows of cropped
\* frame k are the same pixels
WindowsIdentical(cropped, k, h) ==
  /\ cropped[k - 1].width = cropped[k].width
  /\ GetImageData(cropped[k - 1], cropped[k - 1].height - h, cropped[k - 1].width, h)
       = GetImageData(cropped[k], 0, cropped[k].width, h)

\* C16: when the bottom h rows of the previous frame and the top h rows of the
\* current frame are pixel-identical, h being the smallest of maxOverlapHeight
\* and the two frames' heights, detectOverlap returns h itself.
C16_FullWindowOverlap ==
  (Stitched /\ hist.stitched.options.detectDuplicates) =>
    LET s == hist.stitched
        cropped == CroppedFrames(s.frames)
    IN \A k \in 2 .. Len(s.frames) :
         WindowsIdentical(cropped, k, OverlapLimit(s.frames, s.options, k))
           => s.overlaps[k] = OverlapLimit(s.frames, s.options, k)

C16_Witness ==
  /\ Stitched
  /\ hist.stitched.options.detectDuplicates
  /\ \E k \in 2 .. Len(hist.stitched.frames) :
       /\ OverlapLimit(hist.stitched.frames, hist.stitched.options, k) >= 2
       /\ hist.stitched.frames[k].dataUrl.rows[1] # hist.stitched.frames[k].dataUrl.rows[2]
       /\ WindowsIdentical(CroppedFrames(hist.stitched.frames), k,
                           OverlapLimit(hist.stitched.frames, hist.stitched.options, k))
       /\ hist.stitched.overlaps[k]
            = OverlapLimit(hist.stitched.frames, hist.stitched.options, k)

\* C17: with detectDuplicates false every overlap is 0, detectOverlap is not
\* called, and the composite is as tall as the cropped frames together.
C17_NoDetection ==
  (Stitched /\ ~hist.stitched.options.detectDuplicates) =>
    LET s == hist.stitched IN
    /\ \A k \in 1 .. Len(s.overlaps) : s.overlaps[k] = 0
    /\ s.detectCalls = 0
    /\ s.height = SumCropHeights(s.frames, Len(s.frames))

\* frames that overlap in all their rows are stitched without detection
C17_Witness ==
  /\ Stitched
  /\ ~hist.stitched.options.detectDuplicates
  /\ hist.stitched.options.maxOverlapHeight >= 2
  /\ Len(hist.stitched.frames) >= 3
  /\ \A k \in 2 .. Len(hist.stitched.frames) :
       /\ hist.stitched.frames[k].cropRegion.height >= 2
       /\ hist.stitched.frames[k].dataUrl = hist.stitched.frames[1].dataUrl
  /\ hist.stitched.height = SumCropHeights(hist.stitched.frames, 3)

\* The frame list fs is the documented one: three frames cropped to 100 rows
\* of 50 pixels, the top 20 rows of the second being the bottom 20 rows of
\* the first and no other row of the two being the same, and the third
\* having no row in common with the second.
ScenarioShaped(fs) ==
  /\ Len(fs) = 3
  /\ \A k \in 1 .. 3 :
       /\ fs[k].cropRegion = [x |-> 0, y |-> 0, width |-> 50, height |-> 100]
       /\ fs[k].dataUrl.kind = "rows"
       /\ fs[k].dataUrl.width = 50
       /\ Len(fs[k].dataUrl.rows) = 100
  /\ \A a \in 1 .. 100, b \in 1 .. 100 :
       /\ (fs[1].dataUrl.rows[a] = fs[2].dataUrl.rows[b]) <=> (a = b + 80)
       /\ fs[2].dataUrl.rows[a] # fs[3].dataUrl.rows[b]

C19_WidthMismatchFails ==
  (/\ hist.stitched.kind = "stitched"
   /\ \E k \in 2 .. Len(hist.stitched.frames) :
        hist.stitched.frames[k].cropRegion.width
          # hist.stitched.frames[1].cropRegion.width)
    => (~hist.stitched.ok /\ ~Downloaded)

\* C20: a frame at whose scroll position the target does not intersect the
\* viewport aborts the capture: no FrameRecord is appended for it, so every
\* recorded frame has a crop rectangle with pixels in it, and no stitch
\* request is sent for a session in which that happened.
C20_EmptyCropAborts ==
  \A k \in 1 .. Len(frames) :
    /\ frames[k].cropRegion.width > 0
    /\ frames[k].cropRegion.height > 0

\* Scroller.capture is not running: it has not been called or it has ended
CaptureEnded == pc = "idle"

\* C21: once Scroller.capture has ended, normally or by an error thrown after
\* isolate(), the isolation is undone: isIsolated is false, isolatedElements
\* is empty and no element carries the data-esc-isolated attribute.
C21_IsolationUndone ==
  CaptureEnded =>
    /\ ~isIsolated
    /\ isolatedElements = << >>
    /\ \A k \in 1 .. Len(dom) : ~dom[k].marked

\* a session that hid two elements has failed
C21_Witness ==
  /\ CaptureEnded
  /\ outcome = "failed"
  /\ Cardinality(hist.hidden) = 2
  /\ \A k \in 1 .. Len(dom) : ~dom[k].marked

\* the frames the running session has to capture
SessionFrames == IF ScrollSession THEN TotalFrames(page) ELSE 1

\* C22: every capture session ends, also when every snapshot request is
\* rate-limited, and then isCapturing is false again.  It makes at most
\* 3 * totalFrames snapshot requests: requests are made only for a frame index
\* below totalFrames, at most 3 of them for one index, and the index only
\* grows during a session.
C22_SessionTerminates ==
  /\ [](/\ hist.attempts <= 3
        /\ (isCapturing /\ hist.attempts > 0) => i < SessionFrames)
  /\ [][/\ hist'.attempts > hist.attempts
           => (hist'.attempts = hist.attempts + 1 /\ i' = i /\ frameReq' = frameReq + 1)
        /\ frameReq' > frameReq => hist'.attempts = hist.attempts + 1
        /\ (isCapturing /\ isCapturing' /\ pc # "idle" /\ i' # i)
             => (i' = i + 1 \/ pc' = "awaitStitch")]_vars
  /\ (isCapturing ~> (~isCapturing /\ pc = "idle"))

\* a session in which every snapshot request was rate-limited has ended
C22_Witness ==
  /\ ~isCapturing
  /\ pc = "idle"
  /\ outcome = "failed"
  /\ hist.failKind = "quota"
  /\ hist.failedAt = 0
  /\ hist.failAttempts = 3
  /\ hist.failLimited = 3
  /\ ScrollSession

\* C23: a frame whose snapshot is rate-limited once or twice is requested
\* again, and when the snapshot then succeeds the frame has taken at most 3
\* requests, its FrameRecord is appended, the loop goes on with the next frame
\* (or, after the last one, with the restoring scroll), and no error is
\* reported.
C23_RetryThenSuccess ==
  [][/\ (pc = "backoff" /\ hist.limited \in {1, 2} /\ pc' # pc)
          => /\ pc' = "awaitFrame"
             /\ hist'.attempts = hist.limited + 1
             /\ i' = i
             /\ outcome' = outcome
             /\ popup' = popup
     /\ (/\ pc = "awaitFrame"
         /\ frameResp.kind = "ok"
         /\ hist.limited \in {1, 2}
         /\ frameResp' # frameResp)
          => /\ hist.attempts = hist.limited + 1
             /\ hist.attempts <= 3
             /\ Len(frames') = Len(frames) + 1
             /\ frames'[Len(frames')].frameIndex = i
             /\ frames'[Len(frames')].dataUrl = frameResp.dataUrl
             /\ \A k \in 1 .. Len(frames) : frames'[k] = frames[k]
             /\ i' = i + 1
             /\ pc' = (IF i + 1 < loc.totalFrames THEN "scrolled" ELSE "restoring")
             /\ isCapturing'
             /\ outcome' = "none"
             /\ popup' = popup]_vars

\* the third request of the second frame is answered with a snapshot
C23_Witness ==
  /\ pc = "awaitFrame"
  /\ frameResp.kind = "ok"
  /\ hist.limited = 2
  /\ hist.attempts = 3
  /\ i = 1
  /\ Len(frames) = 1
  /\ loc.totalFrames >= 3

\* C24: the retry policy also covers a capture of one frame: a session of a
\* target that does not scroll fails for a rate limit only after 3 requests.
C24_SingleFrameRetried ==
  (/\ pc = "idle"
   /\ outcome = "failed"
   /\ ~ScrollSession
   /\ hist.failKind = "quota")
    => (hist.failAttempts = 3 /\ hist.failLimited = 3)

\* C25: when scrollHeight - clientHeight <= 0 the capture takes exactly one
\* frame at the current scroll offset: nothing is scrolled, one snapshot is
\* recorded, it shows the container at the offset it had before the capture
\* began, and that one frame is what is sent to be stitched.
C25_SingleFrame ==
  (page.scrollHeight - page.clientHeight <= 0 /\ hist.sessions > 0) =>
    /\ hist.scrollCalls = << >>
    /\ hist.attempts <= 1
    /\ scrollTop = hist.initialScrollTop
    /\ Len(frames) <= 1
    /\ \A k \in 1 .. Len(frames) :
         /\ frames[k].frameIndex = 0
         /\ frames[k].dataUrl.shot.scrollTop = hist.initialScrollTop
    /\ StitchSent => Len(frames) = 1
    /\ stitchReq # None => stitchReq.frames = frames
    /\ hist.stitched # None => hist.stitched.frames = frames

C25_Witness ==
  /\ page.scrollHeight - page.clientHeight <= 0
  /\ pc = "idle"
  /\ outcome = "complete"
  /\ Len(frames) = 1
  /\ Downloaded
  /\ hist.stitched.height = page.clientHeight * page.dpr
  /\ page.dpr = 2

\* channel c of the pixel in row `row` and column x of an image, by the
\* image's own width
PixelByte(img, row, x, c) ==
  IF row >= 0 /\ row < img.height /\ x >= 0 /\ x < img.width
  THEN img.data[(row * img.width + x) * 4 + c + 1]
  ELSE Undefined

\* R, G and B of the two pixels differ by at most 5 each; alpha is not looked at
PixelsMatch(prevData, prevRow, currData, currRow, x) ==
  \A c \in 0 .. 2 :
    /\ PixelByte(prevData, prevRow, x, c) # Undefined
    /\ PixelByte(currData, currRow, x, c) # Undefined
    /\ Abs(PixelByte(prevData, prevRow, x, c) - PixelByte(currData, currRow, x, c)) <= 5

\* more than 95% of the k * sampleCount sampled positions of candidate k match
Qualifies(prevData, currData, k) ==
  LET sampleCount == Min(prevData.width, 100)
      sampleStep == prevData.width \div sampleCount
      matching ==
        { rs \in (0 .. k - 1) \X (0 .. sampleCount - 1) :
            PixelsMatch(prevData, prevData.height - k + rs[1],
                        currData, rs[1], rs[2] * sampleStep) }
  IN Cardinality(matching) * 100 > 95 * k * sampleCount

\* the largest k in 1 .. h that qualifies, or 0
LargestQualifying(prevData, currData, h) ==
  LET qualifying == { k \in 1 .. h : Qualifies(prevData, currData, k) }
  IN IF qualifying = {} THEN 0
     ELSE CHOOSE k \in qualifying : \A j \in qualifying : j <= k

\* C26: the overlap detectOverlap returns for two consecutive frames is the
\* largest k in 1 .. h for which more than 95% of the sampled positions match,
\* row (prevHeight - k + row) of the previous frame being compared with row
\* `row` of the current frame, and 0 when no k qualifies.
C26_LargestCandidate ==
  (Stitched /\ hist.stitched.options.detectDuplicates) =>
    LET s == hist.stitched
        cropped == CroppedFrames(s.frames)
    IN \A k \in 2 .. Len(s.frames) :
         LET h == OverlapLimit(s.frames, s.options, k)
             prevData == GetImageData(cropped[k - 1], cropped[k - 1].height - h,
                                      cropped[k - 1].width, h)
             currData == GetImageData(cropped[k], 0, cropped[k].width, h)
         IN s.overlaps[k] = LargestQualifying(prevData, currData, h)

\* The rows sourceY .. height - 1 of every cropped frame are the rows of the
\* image img that start where the rows of the frame before end, the first
\* frame's at row 0, in the columns the frame and the image share; the last
\* frame's rows end at the image's height.
RegionsFill(img, cropped, overlaps) ==
  /\ PlacedAt(cropped, overlaps, 1) = 0
  /\ PlacedAt(cropped, overlaps, Len(overlaps) + 1) = img.height
  /\ \A k \in 1 .. Len(overlaps) :
       LET frame == cropped[k]
           sourceY == IF k = 1 THEN 0 ELSE overlaps[k]
           y == PlacedAt(cropped, overlaps, k)
           fw == frame.width
           iw == img.width
       IN /\ sourceY <= frame.height
          /\ PlacedAt(cropped, overlaps, k + 1) = y + frame.height - sourceY
          /\ \A r \in sourceY .. frame.height - 1 :
               \A b \in 0 .. 4 * Min(fw, iw) - 1 :
                 img.data[(y + r - sourceY) * iw * 4 + b + 1]
                   = frame.data[r * fw * 4 + b + 1]

\* C27: in the composite the first frame fills the rows from 0 to its height,
\* and every later frame i contributes its rows from overlap[i] to its height
\* right after the rows of frame i - 1; the regions follow one another without
\* gap or overlap and end at the composite's height, where the write cursor
\* stands.
C27_RegionsContiguous ==
  (Stitched /\ Downloaded) =>
    /\ RegionsFill(downloads[Len(downloads)], CroppedFrames(hist.stitched.frames),
                   hist.stitched.overlaps)
    /\ hist.stitched.currentY = downloads[Len(downloads)].height

C27_Witness ==
  /\ Stitched
  /\ Downloaded
  /\ Len(hist.stitched.frames) = 3
  /\ hist.stitched.overlaps[2] = 1
  /\ hist.stitched.overlaps[3] = 0
  /\ hist.stitched.frames[2].cropRegion.height = 2
  /\ downloads[Len(downloads)].height
       = hist.stitched.frames[1].cropRegion.height + 1
           + hist.stitched.frames[3].cropRegion.height

\* capture() has got all frames of the session and asked for them to be stitched
FramesDelivered == pc = "awaitStitch" \/ (pc = "idle" /\ outcome = "complete")

\* the progress reports (1, n), (2, n), ..., (n, n)
ProgressReports(n) == [k \in 1 .. n |-> ProgressMsg(k, n)]

\* C28: in a successful session of N frames the scroll to a frame's offset
\* precedes the first snapshot request of that frame; the popup receives
\* exactly the progress reports (1, N), ..., (N, N) in this order; the scroll
\* back to the initial offset follows the last snapshot; and one STITCHING
\* notification with the STITCH_AND_DOWNLOAD request follows that scroll.
C28_EventOrder ==
  /\ (ScrollSession /\ hist.attempts > 0)
       => /\ Len(hist.loopCalls) = i + 1
          /\ hist.loopCalls[i + 1] = AbsoluteScrollTop5(page, i)
          /\ Len(frames) = i
  /\ (ScrollSession /\ FramesDelivered)
       => /\ Len(hist.scrollCalls) = Len(frames) + 2
          /\ hist.scrollCalls[Len(hist.scrollCalls)] = 5 * hist.initialScrollTop
          /\ Len(hist.loopCalls) = Len(frames)
  /\ FramesDelivered
       => popup = << Msg("ELEMENT_SELECTED") >> \o ProgressReports(Len(frames))
                    \o << Msg("STITCHING") >>
  /\ StitchSent => FramesDelivered
  /\ stitchReq # None => (StitchSent /\ stitchReq.frames = frames)

\* the rectangle has points in common with the viewport [0, w] x [0, h]
IntersectsViewport(rect, w, h) ==
  /\ rect.left < w /\ rect.right > 0
  /\ rect.top < h /\ rect.bottom > 0

\* the rectangle clipped to the viewport and scaled, or a zero-area rectangle
\* when nothing of it is in the viewport; in both cases inside the snapshot
CropAsDocumented(r, rect, w, h, dpr) ==
  /\ r.width >= 0 /\ r.height >= 0
  /\ r.x >= 0 /\ r.y >= 0
  /\ r.x + r.width <= w * dpr /\ r.y + r.height <= h * dpr
  /\ IF IntersectsViewport(rect, w, h)
     THEN /\ r.x = Max(0, rect.left) * dpr
          /\ r.y = Max(0, rect.top) * dpr
          /\ r.x + r.width = Min(w, rect.right) * dpr
          /\ r.y + r.height = Min(h, rect.bottom) * dpr
     ELSE r.width = 0 \/ r.height = 0

\* C29: the crop rectangle of every frame of a scrolling session, computed by
\* calculateCropRegion at the frame's scroll position, is a zero-area
\* rectangle (width >= 0, height >= 0, one of them 0) when the target does not
\* intersect the viewport, and otherwise the intersection scaled by the device
\* pixel ratio; it lies within the snapshot's bounds.
C29_CropRegion ==
  ScrollSession =>
    \A k \in 1 .. Len(frames) :
      CropAsDocumented(frames[k].cropRegion,
                       TargetRect(page, SetScrollTop(page,
                                    AbsoluteScrollTop5(page, frames[k].frameIndex))),
                       ViewportW, ViewportH(page), page.dpr)

\* C30: once the session has ended, every element that Isolator.isolate hid
\* has the inline visibility and pointer-events it had immediately before
\* isolate, whether the session ended through restore() or forceRestore().
C30_StylesRestored ==
  (CaptureEnded /\ hist.sessions > 0) =>
    \A k \in hist.hidden :
      /\ dom[k].visibility = hist.domBefore[k].visibility
      /\ dom[k].pointerEvents = hist.domBefore[k].pointerEvents

\* the container offset at which the window of the k-th scrollTo of the loop
\* starts
WindowStart(k) == SetScrollTop(page, hist.loopCalls[k])

\* C31: in a session of a container with scrollableHeight > 0 the offsets the
\* frame loop scrolls to start at 0, differ from one to the next by at most
\* step = 0.8 * clientHeight and end at scrollableHeight, so that the windows
\* [offset, offset + clientHeight) leave no gap and cover [0, scrollHeight);
\* totalFrames is at least 2.
C31_OffsetsCoverRange ==
  ScrollSession =>
    /\ \A k \in 1 .. Len(hist.loopCalls) :
         /\ k = 1 => (hist.loopCalls[k] = 0 /\ WindowStart(k) = 0)
         /\ k > 1 => /\ hist.loopCalls[k] - hist.loopCalls[k - 1]
                          <= EffectiveHeight5(page.clientHeight)
                     /\ WindowStart(k) <= WindowStart(k - 1) + page.clientHeight
    /\ LoopCompleted =>
         /\ Len(frames) >= 2
         /\ hist.loopCalls[Len(hist.loopCalls)]
              = 5 * (page.scrollHeight - page.clientHeight)
         /\ WindowStart(Len(hist.loopCalls)) + page.clientHeight = page.scrollHeight

\* the rows of the cropped frame of the k-th scrollTo that the cropped frame of
\* the next scrollTo shows again: the part of the window that stays in view,
\* in device pixels
DuplicatedRows(k) ==
  (WindowStart(k) + page.clientHeight - WindowStart(k + 1)) * page.dpr

\* C32: the maxOverlapHeight that capture() passes to the stitcher is at least
\* the number of pixel rows that two consecutive non-final frames of the
\* session have in common, at every device pixel ratio.
C32_OverlapLimitReachesOverlap ==
  (ScrollSession /\ StitchSent /\ stitchReq # None) =>
    \A k \in 1 .. Len(stitchReq.frames) - 2 :
      stitchReq.options.maxOverlapHeight >= DuplicatedRows(k)

\* C33: while a CAPTURE_FRAME request is outstanding, for any frame and any
\* attempt, the progress indicator is not on the page, and it is not on the
\* page once Scroller.capture has ended, by returning or by throwing.
C33_ProgressHiddenInSnapshots ==
  /\ OutstandingFrameRequests > 0 => ~progressShown
  /\ CaptureEnded => ~progressShown

\* the second attempt for a later frame is outstanding, after the indicator
\* was shown for the frame before it
C33_Witness ==
  /\ pc = "awaitFrame" /\ OutstandingFrameRequests > 0
  /\ Len(frames) >= 1 /\ hist.attempts = 2
  /\ ~progressShown

\* captureWithScrollAndCrop has returned or thrown in the current session
FrameLoopLeft == ScrollSession /\ pc \in {"awaitStitch", "idle"}

\* C34: after captureWithScrollAndCrop has returned or thrown, at whatever
\* frame, the container does not carry data-esc-hide-scrollbar and its style
\* attribute is what it was before the capture (empty when it had none).
C34_ScrollbarsRestored ==
  /\ FrameLoopLeft => (~scrollbarHidden /\ style = hist.styleBefore)
  /\ scrollbarHidden =>
       \E k \in 1 .. Len(style) :
         style[k] = Declaration("scrollbar-width", "none")

\* a session failed at its second frame on a container whose style attribute
\* set scrollbar-width itself
C34_Witness ==
  /\ FrameLoopLeft /\ outcome = "failed" /\ hist.failedAt = 1
  /\ style = << Declaration("scrollbar-width", "thin") >>
  /\ ~scrollbarHidden

\* C35: over the sessions of a page, however each ends, Isolator.isolate is
\* never called while isIsolated is true: every session's call hides the
\* elements that findElementsToIsolate finds at that moment.
C35_IsolateNeverSkipped ==
  [][hist'.sessions # hist.sessions
       => /\ ~isIsolated
          /\ isolatedElements = << >>
          /\ dom' = IsolateDom(dom)
          /\ hist'.hidden = FindElementsToIsolate(dom)]_vars

\* a second session on the page has hidden the overlays anew
C35_Witness ==
  /\ hist.sessions = 2 /\ pc = "isolated"
  /\ hist.hidden # {} /\ Len(isolatedElements) = Cardinality(hist.hidden)
  /\ \A k \in hist.hidden : dom[k].marked

----------------------------------------------------------------------------
(* The page moving under a pending snapshot.  While the content script is   *)
(* suspended in await chrome.runtime.sendMessage({type: 'CAPTURE_FRAME'})   *)
(* the page keeps running: the user's wheel or a script of the page can     *)
(* scroll the container.  SpecShift adds that step to the program.          *)

\* the container is scrolled to its other end while a snapshot is requested
ScrollWhileOutstanding ==
  /\ frameReq > 0 \/ frameResp # None
  /\ \E v \in {0, MaxScrollTop(page)} : v # scrollTop /\ scrollTop' = v
  /\ UNCHANGED <<page, inspActive, inspector, isCapturing, pc, loc, i, retries, frames,
                 frameReq, frameResp, stitchReq, stitchResp, progressShown,
                 scrollbarHidden, style, isIsolated, isolatedElements, dom, popup,
                 tabMsgs, downloads, outcome, hist>>

\* pages at device pixel ratio 1: a descendant as target, or a short container
\* of one or two frames
ShiftPages ==
  { p \in Pages :
      /\ p.dpr = 1 /\ p # ScenarioPage
      /\ p.self => /\ p.clientHeight = MaxClient - 1
                   /\ p.scrollHeight - p.clientHeight <= 1 }

InitShift ==
  /\ page \in ShiftPages
  /\ scrollTop \in {0, MaxScrollTop(page)}
  /\ inspActive = FALSE
  /\ inspector = NewInspector("content")
  /\ isCapturing = FALSE
  /\ pc = "idle"
  /\ loc = NoLocals
  /\ i = 0
  /\ retries = 0
  /\ frames = << >>
  /\ frameReq = 0
  /\ frameResp = None
  /\ stitchReq = None
  /\ stitchResp = None
  /\ progressShown = FALSE
  /\ scrollbarHidden = FALSE
  /\ isIsolated = FALSE
  /\ isolatedElements = << >>
  /\ dom \in Doms(page)
  /\ style \in ContainerStyles(page, dom)
  /\ popup = << >>
  /\ tabMsgs = << >>
  /\ downloads = << >>
  /\ outcome = "none"
  /\ hist = NewHist(0, scrollTop)


NextShift == Next \/ ScrollWhileOutstanding

SpecShift == InitShift /\ [][NextShift]_vars

\* C36: the crop rectangle of every FrameRecord is the target's rectangle in
\* the viewport as its snapshot shows it, that is, at the scroll offset the
\* container had when the snapshot was taken, also when the container is
\* scrolled while the snapshot request is outstanding.
C36_CropMatchesSnapshot ==
  \A k \in 1 .. Len(frames) :
    frames[k].cropRegion
      = CalculateCropRegion(TargetRect(page, frames[k].dataUrl.shot.scrollTop),
                            ViewportW, ViewportH(page), page.dpr)

----------------------------------------------------------------------------
(* The background's message listener on its own: the messages that are     *)
(* waiting for it when it runs are a CAPTURE_FRAME or none and a            *)
(* STITCH_AND_DOWNLOAD with some frame list, the empty one included, or     *)
(* none.                                                                    *)

\* STITCH_AND_DOWNLOAD with frames: []
EmptyStitchRequest ==
  [kind |-> "stitch", frames |-> << >>,
   options |-> [detectDuplicates |-> TRUE, maxOverlapHeight |-> MaxRows]]

BackgroundStitchRequests ==
  {None, EmptyStitchRequest} \cup WideStitchRequests
    \cup { r \in SmallStitchRequests :
             /\ Len(r.frames) = 2
             /\ r.options.detectDuplicates
             /\ r.options.maxOverlapHeight >= 1 }

InitBackground ==
  /\ page \in LivePages
  /\ scrollTop = 0
  /\ inspActive = FALSE
  /\ inspector = NewInspector("content")
  /\ isCapturing = FALSE
  /\ pc = "idle"
  /\ loc = NoLocals
  /\ i = 0
  /\ retries = 0
  /\ frames = << >>
  /\ frameReq \in 0 .. 1
  /\ frameResp = None
  /\ stitchReq \in BackgroundStitchRequests
  /\ stitchResp = None
  /\ progressShown = FALSE
  /\ scrollbarHidden = FALSE
  /\ style = << >>
  /\ isIsolated = FALSE
  /\ isolatedElements = << >>
  /\ dom = << >>
  /\ popup = << >>
  /\ tabMsgs = << >>
  /\ downloads = << >>
  /\ outcome = "none"
  /\ hist = NewHist(0, 0)

NextBackground ==
  \/ BgFrameCaptured
  \/ BgFrameRateLimited
  \/ BgFrameError
  \/ BgStitchAndDownload

SpecBackground == InitBackground /\ [][NextBackground]_vars

\* C37: the background answers each request once.  A response to
\* CAPTURE_FRAME is sent only for a pending request, one per request, and is
\* {success: true, dataUrl} or {success: false, error}.  A STITCH_AND_DOWNLOAD
\* request gets one response together with one message to the tab,
\* CAPTURE_COMPLETE with a success response and a download, or CAPTURE_ERROR
\* with a failure response and no download; a download is made only for a
\* composite that was stitched; an empty frame list gets the failure.
C37_EveryRequestAnsweredOnce ==
  [][/\ (frameReq' # frameReq \/ frameResp' # frameResp)
          => /\ frameReq' = frameReq - 1
             /\ frameResp = None
             /\ \/ frameResp'.kind = "ok" /\ frameResp'.dataUrl.kind = "tab"
                \/ frameResp'.kind \in {"quota", "error"}
     /\ (stitchReq' # stitchReq \/ stitchResp' # stitchResp
            \/ tabMsgs' # tabMsgs \/ downloads' # downloads)
          => /\ stitchReq # None /\ stitchReq' = None
             /\ stitchResp = None /\ stitchResp'.kind = "response"
             /\ \E m \in {Msg("CAPTURE_COMPLETE"), Msg("CAPTURE_ERROR")} :
                  /\ tabMsgs' = Append(tabMsgs, m)
                  /\ stitchResp'.success <=> m.type = "CAPTURE_COMPLETE"
             /\ IF stitchResp'.success
                THEN /\ hist'.stitched.ok
                     /\ Len(downloads') = Len(downloads) + 1
                ELSE downloads' = downloads
             /\ stitchReq.frames = << >> => ~stitchResp'.success]_vars

\* an empty frame list and a CAPTURE_FRAME were both answered with failures
C37_Witness ==
  /\ hist.stitched.kind = "stitched" /\ hist.stitched.frames = << >>
  /\ stitchReq = None /\ stitchResp = [kind |-> "response", success |-> FALSE]
  /\ tabMsgs = << Msg("CAPTURE_ERROR") >> /\ downloads = << >>
  /\ frameReq = 0 /\ frameResp.kind = "error"

----------------------------------------------------------------------------
(* The Inspector on its own, in both builds, with onSelect a callback that  *)
(* only records its argument.                                               *)

MaxElements == 2      \* elements the mouse can be over
MaxClicks == 3        \* click events delivered to the page

\* what the Inspector does not touch
inspectorRest ==
  <<page, scrollTop, isCapturing, pc, loc, i, retries, frames, frameReq,
    frameResp, stitchReq, stitchResp, progressShown, scrollbarHidden, style,
    isIsolated, isolatedElements, dom, popup, tabMsgs, downloads, outcome>>

\* Inspector.start(onSelect, onCancel) while not active
InspectorStart ==
  /\ ~inspActive
  /\ inspActive' = TRUE
  /\ inspector' = InspectorStarted(inspector)
  /\ UNCHANGED <<inspectorRest, hist>>

\* handleMouseMove: the element under the mouse becomes currentElement
InspectorMouseMove ==
  /\ inspector.listeners /\ inspActive
  /\ \E target \in 1 .. MaxElements :
       /\ target # inspector.currentElement
       /\ inspector' = [inspector EXCEPT !.currentElement = target]
  /\ UNCHANGED <<inspectorRest, inspActive, hist>>

\* a click on the page; handleClick runs when its listener is attached
InspectorClick ==
  /\ hist.clicks < MaxClicks
  /\ IF inspector.listeners /\ inspActive /\ inspector.currentElement # Null
     THEN /\ inspActive' = FALSE
          /\ inspector' = InspectorStopped(inspector)
          /\ hist' = [hist EXCEPT !.clicks = @ + 1,
                                  !.selected = Append(@, SelectedArgument(inspector))]
     ELSE /\ hist' = [hist EXCEPT !.clicks = @ + 1]
          /\ UNCHANGED <<inspActive, inspector>>
  /\ UNCHANGED inspectorRest

\* handleKeyDown with Escape, or cancelInspector: stop()
InspectorEscape ==
  /\ inspActive
  /\ inspActive' = FALSE
  /\ inspector' = InspectorStopped(inspector)
  /\ UNCHANGED <<inspectorRest, hist>>

InitInspector ==
  /\ page \in LivePages
  /\ scrollTop = 0
  /\ inspActive = FALSE
  /\ inspector \in {NewInspector("module"), NewInspector("content")}
  /\ isCapturing = FALSE
  /\ pc = "idle"
  /\ loc = NoLocals
  /\ i = 0
  /\ retries = 0
  /\ frames = << >>
  /\ frameReq = 0
  /\ frameResp = None
  /\ stitchReq = None
  /\ stitchResp = None
  /\ progressShown = FALSE
  /\ scrollbarHidden = FALSE
  /\ style = << >>
  /\ isIsolated = FALSE
  /\ isolatedElements = << >>
  /\ dom = << >>
  /\ popup = << >>
  /\ tabMsgs = << >>
  /\ downloads = << >>
  /\ outcome = "none"
  /\ hist = NewHist(0, scrollTop)

NextInspector ==
  \/ InspectorStart
  \/ InspectorMouseMove
  \/ InspectorClick
  \/ InspectorEscape

SpecInspector == InitInspector /\ [][NextInspector]_vars

\* C38: a click while the inspector is active and an element is highlighted
\* stops the inspector (not active, listeners detached, overlay elements
\* removed) and calls onSelect once, with the element that was highlighted
\* when the click came and not with null; a click while the inspector is not
\* active calls nothing.
C38_ClickSelectsHighlighted ==
  [][hist'.clicks # hist.clicks
       => IF inspActive /\ inspector.currentElement # Null
          THEN /\ ~inspActive'
               /\ ~inspector'.listeners /\ ~inspector'.overlay
               /\ hist'.selected = Append(hist.selected, inspector.currentElement)
               /\ inspector.currentElement # Null
          ELSE ~inspActive
                 => /\ hist'.selected = hist.selected
                    /\ UNCHANGED <<inspActive, inspector>>]_vars

\* every read that detectOverlap makes for candidate `overlap` of two windows
\* h rows tall is a read of a pixel of its window: the sampled column is a
\* column of the window, both rows are rows of it, and the three bytes read
\* lie inside the array
ReadsInside(prevData, currData, h, overlap) ==
  \A row \in 0 .. overlap - 1 :
    \A sample \in 0 .. Min(prevData.width, 100) - 1 :
      LET w == prevData.width
          x == SampleColumn(w, sample)
          prevRow == PrevRow(prevData, overlap, row)
      IN /\ x = sample * (w \div Min(w, 100)) /\ x < w
         /\ prevRow = h - overlap + row
         /\ prevRow >= 0 /\ prevRow <= h - 1
         /\ row <= h - 1
         /\ \A c \in 0 .. 2 :
              /\ ReadByte(prevData, (prevRow * w + x) * 4 + c) # Undefined
              /\ ReadByte(currData, (row * w + x) * 4 + c) # Undefined

\* C39: for two windows of equal width w >= 1 and height h that stitchFrames
\* hands to detectOverlap, every pixel read for every candidate k in 1 .. h,
\* every row in 0 .. k - 1 and every sample is inside its buffer: the sampled
\* column is below w and both rows are in 0 .. h - 1.
C39_ReadsInsideBuffers ==
  (Stitched /\ hist.stitched.options.detectDuplicates) =>
    LET s == hist.stitched
        cropped == CroppedFrames(s.frames)
    IN \A k \in 2 .. Len(s.frames) :
         LET h == OverlapLimit(s.frames, s.options, k)
             prevData == GetImageData(cropped[k - 1], cropped[k - 1].height - h,
                                      cropped[k - 1].width, h)
             currData == GetImageData(cropped[k], 0, cropped[k].width, h)
         IN prevData.width = currData.width
              => \A overlap \in 1 .. h : ReadsInside(prevData, currData, h, overlap)

\* two windows 201 pixels wide and 2 rows tall were compared, every other
\* column sampled, and the candidate 1 below the window's height was accepted
C39_Witness ==
  /\ Stitched /\ hist.stitched.options.detectDuplicates
  /\ Len(hist.stitched.frames) = 2
  /\ hist.stitched.frames[1].cropRegion.width = WideWidth
  /\ hist.stitched.frames[2].cropRegion.width = WideWidth
  /\ SampleStep(WideWidth) = 2
  /\ hist.stitched.overlaps[2] = 1

====
